---- MODULE Spec2Model ----
(***************************************************************************)
(* OpenCorr ICGN estimators (src/src/oc_icgn.cpp): ICGN2D1, ICGN2D2 and    *)
(* ICGN3D1.  The model covers the scratch pool (getInstance), the per-POI  *)
(* compute (validation, reference set-up, the IC-GN do-while loop and the  *)
(* write-back) and the OpenMP batch driver compute(poi_queue).             *)
(*                                                                         *)
(* Floats are NaN or a multiple of 1/2: [nan |-> BOOLEAN, h |-> halves].   *)
(* Comparisons follow IEEE-754: every ordered comparison with NaN is       *)
(* false.  Image data are not modelled pixel by pixel: an image pair is    *)
(* one of a few scenarios, and the numerical pipeline of one iteration     *)
(* (interpolation, error image, Hessian solve) is the scenario's response  *)
(* to the current estimate.                                                *)
(*                                                                         *)
(* Further specifications cover parts on their own: FFT-CC (SpecFFTCC),    *)
(* the FFTW planner calls (SpecPlanner), the convergence test              *)
(* (SpecConvergence), determineSpeckleSize (SpecSpeckle), the two forms    *)
(* of p_current (SpecWarp) and the objects built by prepare (SpecPrepare). *)
(***************************************************************************)
EXTENDS Integers, Sequences, FiniteSets, TLC

VARIABLES
    variant,          \* which estimator class was constructed
    image,            \* the reference/target pair attached by setImages
    conv_criterion,   \* this->conv_criterion (float)
    stop_condition,   \* this->stop_condition (float)
    instance_pool,    \* scratch instances, indexed 0 .. thread_number-1
    omp_threads,      \* team size the OpenMP runtime gives a parallel region
    callers,          \* number of caller threads that use the estimator
    poi_queue,        \* the caller's POI list
    phase,            \* "ready", "batch", "direct", "returned", "terminated"
    taken,            \* indices of poi_queue already handed to a compute call
    th,               \* per-thread locals of compute(poi)
    poi_entry,        \* history: poi_queue as it was at construction
    outcome           \* history: how compute left each POI

\* FFT-CC (FFTCC2D, FFTCC3D and the FFTW scratch instance, as compiled into
\* src/samples/test_2d_dic_fftcc_icgn1.cpp)
VARIABLES
    fft_cfg,          \* the estimator's class and radii, the images, the POI on entry
    fft_poi,          \* the caller's POI
    fft_inst,         \* the FFTW instance: ref_subset, tar_subset, zncc buffers
    fft_th,           \* locals of FFTCC2D::compute / FFTCC3D::compute
    planner           \* threads constructing and destroying FFT-CC estimators

\* Parts checked on their own
VARIABLES
    conv_test,        \* the convergence test of one pass, applied to an increment
    speckle,          \* locals of FFTCC2D::determineSpeckleSize
    warp_test,        \* p_current of one call of ICGN2D1::compute: scalars and matrix
    prep              \* an ICGN2D1 estimator's gradient and interpolator objects

icgnvars == <<variant, image, conv_criterion, stop_condition, instance_pool,
              omp_threads, callers, poi_queue, phase, taken, th, poi_entry, outcome>>
fftvars == <<fft_cfg, fft_poi, fft_inst, fft_th, planner>>
partvars == <<conv_test, speckle, warp_test, prep>>
vars == <<icgnvars, fftvars, partvars>>

----------------------------------------------------------------------------
(* Bounds of the model *)

Width == 4
Height == 4
Depth == 4
RadiusX == 1
RadiusY == 1
RadiusZ == 1
MaxWorkers == 2
MaxPoi == 2
MaxStop == 3
MaxFftRadius == 2

----------------------------------------------------------------------------
(* Floats *)

NaN == [nan |-> TRUE, h |-> 0]
Half(k) == [nan |-> FALSE, h |-> k]
F(i) == Half(2 * i)

IsNaN(a) == a.nan
FLt(a, b) == ~a.nan /\ ~b.nan /\ a.h < b.h
FGt(a, b) == ~a.nan /\ ~b.nan /\ a.h > b.h
FGe(a, b) == ~a.nan /\ ~b.nan /\ a.h >= b.h
FEq(a, b) == ~a.nan /\ ~b.nan /\ a.h = b.h
FAdd(a, b) == IF a.nan \/ b.nan THEN NaN ELSE Half(a.h + b.h)
FSub(a, b) == IF a.nan \/ b.nan THEN NaN ELSE Half(a.h - b.h)
\* rounding is symmetric in the sign, as in IEEE arithmetic
TowardZero(n, d) == IF (n >= 0) = (d > 0) THEN (IF n >= 0 THEN n \div d ELSE (-n) \div (-d))
                    ELSE -(IF n >= 0 THEN n \div (-d) ELSE (-n) \div d)
FMul(a, b) == IF a.nan \/ b.nan THEN NaN ELSE Half(TowardZero(a.h * b.h, 2))

ISqrt(n) == CHOOSE k \in 0..n : k * k <= n /\ n < (k + 1) * (k + 1)
Ceil(a) == (a.h + 1) \div 2
Max(a, b) == IF a >= b THEN a ELSE b

----------------------------------------------------------------------------
(* Shapes: a deformation is d[row][col]; d["u"]["t"] is u, d["u"]["x"] is  *)
(* ux, d["v"]["xy"] is vxy, and so on.                                     *)

Variants == {"ICGN2D1", "ICGN2D2", "ICGN3D1"}
Is3D(vr) == vr = "ICGN3D1"

Rows(vr) == IF Is3D(vr) THEN {"u", "v", "w"} ELSE {"u", "v"}
\* columns of POI2D::deformation / POI3D::deformation
PoiCols(vr) == IF Is3D(vr) THEN {"t", "x", "y", "z"}
               ELSE {"t", "x", "y", "xx", "xy", "yy"}
\* columns of p_initial
InitialCols(vr) == IF Is3D(vr) THEN {"t", "x", "y", "z"} ELSE {"t", "x", "y"}
\* columns of p_current and p_increment
CurrentCols(vr) == IF vr = "ICGN2D1" THEN {"t", "x", "y"} ELSE PoiCols(vr)

AxisOf(r) == IF r = "u" THEN "x" ELSE IF r = "v" THEN "y" ELSE "z"

ZeroDeformation(rows, cols) == [r \in rows |-> [c \in cols |-> F(0)]]
NaNDeformation(rows, cols) == [r \in rows |-> [c \in cols |-> NaN]]
HasNaN(d) == \E r \in DOMAIN d : \E c \in DOMAIN d[r] : IsNaN(d[r][c])

----------------------------------------------------------------------------
(* The scratch pool *)

\* omp_get_thread_num(): the index in the team inside the parallel region of
\* compute(poi_queue); 0 for a caller thread outside any parallel region.
OmpGetThreadNum(ph, t) == IF ph = "batch" THEN t ELSE 0

\* getInstance: the range check, and the pool slot it returns
\* (faulty variant: the range check lets tid = size through)
PoolOverflow_OffByOne(pool, tid) == tid > Cardinality(DOMAIN pool)
PoolOverflow(pool, tid) == tid >= Cardinality(DOMAIN pool)
\* (faulty variant: every thread is handed the first instance)
GetInstance_First(pool, tid) == 0
GetInstance(pool, tid) == tid

\* ICGN2D1_::allocate and its siblings: nothing is filled yet.  Each buffer
\* is tagged with the POI (index in poi_queue, 0 for none) it holds data of.
EmptyInstance ==
    [ref_subset |-> 0, hessian |-> 0, tar_subset |-> 0, tar_iteration |-> 0]
NewPool(thread_number) == [k \in 0..(thread_number - 1) |-> EmptyInstance]

\* the instance after the set-up of POI i: reference subset filled, Hessian
\* zeroed and summed, steepest-descent image assigned, target centre set
\* (faulty variant: the Hessian is summed on top of what the instance held)
FilledInstance_KeepsHessian(s, i) ==
    [ref_subset |-> i, hessian |-> s.hessian, tar_subset |-> i, tar_iteration |-> 0]
FilledInstance(s, i) ==
    [ref_subset |-> i, hessian |-> i, tar_subset |-> i, tar_iteration |-> 0]

\* the instance after one pass of the loop for POI i: the target subset and
\* the error image are rewritten
\* (faulty variant: the pass also rebuilds the Hessian, from target data)
IteratedInstance_RebuildsHessian(s, i, iteration) ==
    [s EXCEPT !.tar_subset = i, !.tar_iteration = iteration, !.hessian = 0]
IteratedInstance(s, i, iteration) ==
    [s EXCEPT !.tar_subset = i, !.tar_iteration = iteration]

----------------------------------------------------------------------------
(* compute(poi): validation *)

\* (faulty variant: the far edges are tested with >=)
RejectCond_OffByOne(vr, poi) ==
    IF Is3D(vr)
    THEN \/ poi.x - RadiusX < 0 \/ poi.y - RadiusY < 0 \/ poi.z - RadiusZ < 0
         \/ poi.x + RadiusX >= Width - 1 \/ poi.y + RadiusY >= Height - 1
         \/ poi.z + RadiusZ >= Depth - 1
    ELSE \/ poi.y - RadiusY < 0 \/ poi.x - RadiusX < 0
         \/ poi.y + RadiusY >= Height - 1 \/ poi.x + RadiusX >= Width - 1
         \/ IsNaN(poi.deformation["u"]["t"]) \/ IsNaN(poi.deformation["v"]["t"])

RejectCond(vr, poi) ==
    IF Is3D(vr)
    THEN \/ poi.x - RadiusX < 0 \/ poi.y - RadiusY < 0 \/ poi.z - RadiusZ < 0
         \/ poi.x + RadiusX > Width - 1 \/ poi.y + RadiusY > Height - 1
         \/ poi.z + RadiusZ > Depth - 1
    ELSE \/ poi.y - RadiusY < 0 \/ poi.x - RadiusX < 0
         \/ poi.y + RadiusY > Height - 1 \/ poi.x + RadiusX > Width - 1
         \/ IsNaN(poi.deformation["u"]["t"]) \/ IsNaN(poi.deformation["v"]["t"])

\* (faulty variant: the rejecting branch also clears the iteration count)
RejectedPoi_ClearsIteration(poi) ==
    [poi EXCEPT !.result.zncc = F(-1), !.result.iteration = F(0)]
RejectedPoi(poi) == [poi EXCEPT !.result.zncc = F(-1)]

----------------------------------------------------------------------------
(* compute(poi): the initial guess *)

PInitial(vr, poi) ==
    [r \in Rows(vr) |-> [c \in InitialCols(vr) |-> poi.deformation[r][c]]]

\* p_current.setDeformation(p_initial); a Deformation2D2 loaded from a
\* Deformation2D1 has no second-order part
SetDeformation(vr, p) ==
    [r \in Rows(vr) |->
        [c \in CurrentCols(vr) |-> IF c \in DOMAIN p[r] THEN p[r][c] ELSE F(0)]]

----------------------------------------------------------------------------
(* compute(poi): one pass of the do-while body *)

Clamp(k) == IF k > 1 THEN 1 ELSE IF k < -1 THEN -1 ELSE k

\* Image pairs: "same" (target = reference), "shift" (target = reference
\* moved one pixel along x, on a texture that lets Gauss-Newton advance half
\* a pixel per pass), "noise" (uncorrelated target: the increment never
\* shrinks), "flat" (constant target: tar_mean_norm = 0), "blank" (target =
\* reference, both constant: ref_mean_norm = tar_mean_norm = 0 and a zero
\* Hessian).
Images == {"same", "shift", "noise", "flat", "blank"}
Truth(img, r) == IF img = "shift" /\ r = "u" THEN 2 ELSE 0

\* Target reconstruction, error image, ZNSSD, numerator and dp for the
\* estimate p: [dp, znssd]
Response(img, vr, p) ==
    LET rows == Rows(vr)
        cols == CurrentCols(vr)
        offs == [r \in rows |-> p[r]["t"].h - Truth(img, r)]
        step == [r \in rows |-> IF img = "same" THEN offs[r] ELSE Clamp(offs[r])]
    IN  IF HasNaN(p) \/ img \in {"flat", "blank"}
        THEN [dp |-> NaNDeformation(rows, cols), znssd |-> NaN]
        ELSE IF img = "noise"
        THEN [dp |-> [ZeroDeformation(rows, cols) EXCEPT !["u"]["t"] = F(1)],
              znssd |-> F(2)]
        ELSE [dp |-> [r \in rows |->
                        [c \in cols |-> IF c = "t" THEN Half(step[r]) ELSE F(0)]],
              znssd |-> IF \A r \in rows : offs[r] = 0 THEN F(0) ELSE F(1)]

\* What one pass can produce when the scratch buffers it reads were
\* overwritten by another thread in the meantime (a data race)
RacedResponses(vr) ==
    {Response(img, vr, ZeroDeformation(Rows(vr), CurrentCols(vr))) : img \in Images}

\* p_current.warp_matrix * p_increment.warp_matrix.inverse(), then
\* p_current.setDeformation(): closed form for an increment whose gradient
\* part is zero (every increment Response produces).  Each entry of a row of
\* the product sums over the whole row of p's matrix, so one NaN in a row
\* (or in the increment) makes the whole row NaN.
Lin(p, r, a) == FAdd(IF AxisOf(r) = a THEN F(1) ELSE F(0), p[r][a])
Second(p, r, c) == IF c \in DOMAIN p[r] THEN p[r][c] ELSE F(0)
ComposeRow(vr, p, dp, r) ==
    LET du == dp["u"]["t"]
        dv == dp["v"]["t"]
        dw == IF Is3D(vr) THEN dp["w"]["t"] ELSE F(0)
        z  == IF Is3D(vr) THEN FMul(Lin(p, r, "z"), dw) ELSE F(0)
        xx == Second(p, r, "xx")
        xy == Second(p, r, "xy")
        yy == Second(p, r, "yy")
        quad == FAdd(FAdd(FMul(FMul(Half(1), xx), FMul(du, du)),
                          FMul(xy, FMul(du, dv))),
                     FMul(FMul(Half(1), yy), FMul(dv, dv)))
        lin == FAdd(FAdd(FMul(Lin(p, r, "x"), du), FMul(Lin(p, r, "y"), dv)), z)
    IN  [c \in DOMAIN p[r] |->
            IF c = "t" THEN FAdd(FSub(p[r]["t"], lin), quad)
            ELSE IF c = "x" THEN FSub(p[r]["x"], FAdd(FMul(xx, du), FMul(xy, dv)))
            ELSE IF c = "y" THEN FSub(p[r]["y"], FAdd(FMul(xy, du), FMul(yy, dv)))
            ELSE p[r][c]]
Compose(vr, p, dp) ==
    [r \in DOMAIN p |->
        IF HasNaN(dp) \/ (\E c \in DOMAIN p[r] : IsNaN(p[r][c]))
        THEN [c \in DOMAIN p[r] |-> NaN]
        ELSE ComposeRow(vr, p, dp, r)]

\* dp_norm_max
Sq(d, r, c) == d[r][c].h * d[r][c].h
\* (faulty variant: the 3D norm weighs the gradient components as the 2D one)
DpNorm_CountsGradients(vr, dp) ==
    LET first(r) == Sq(dp, r, "t") + Sq(dp, r, "x") * RadiusX * RadiusX
                    + Sq(dp, r, "y") * RadiusY * RadiusY
                    + (IF Is3D(vr) THEN Sq(dp, r, "z") * RadiusZ * RadiusZ ELSE 0)
    IN  IF HasNaN(dp) THEN NaN
        ELSE Half(ISqrt(first("u") + first("v")
                        + (IF Is3D(vr) THEN first("w") ELSE 0)))
DpNorm(vr, dp) ==
    LET rx2 == RadiusX * RadiusX
        ry2 == RadiusY * RadiusY
        rxy == rx2 * ry2
        first(r) == Sq(dp, r, "t") + Sq(dp, r, "x") * rx2 + Sq(dp, r, "y") * ry2
        second(r) == (Sq(dp, r, "xx") * rx2 * rx2) \div 4
                     + (Sq(dp, r, "yy") * ry2 * ry2) \div 4
                     + Sq(dp, r, "xy") * rxy
    IN  IF Is3D(vr)
        THEN IF \E r \in Rows(vr) : IsNaN(dp[r]["t"]) THEN NaN
             ELSE Half(ISqrt(Sq(dp, "u", "t") + Sq(dp, "v", "t") + Sq(dp, "w", "t")))
        ELSE IF HasNaN(dp) THEN NaN
        ELSE IF vr = "ICGN2D1"
        THEN Half(ISqrt(first("u") + first("v")))
        ELSE Half(ISqrt(first("u") + second("u") + first("v") + second("v")))

\* (faulty variant: the convergence test written as !(dp_norm_max < conv_criterion))
Continue_NotLess(iteration, stop, dp_norm_max, conv) ==
    FLt(F(iteration), stop) /\ ~FLt(dp_norm_max, conv)
\* (faulty variant: the cap tested with <=)
Continue_LeStop(iteration, stop, dp_norm_max, conv) ==
    ~IsNaN(stop) /\ F(iteration).h <= stop.h /\ FGe(dp_norm_max, conv)
\* the condition of the do-while
Continue(iteration, stop, dp_norm_max, conv) ==
    FLt(F(iteration), stop) /\ FGe(dp_norm_max, conv)

----------------------------------------------------------------------------
(* compute(poi): write-back *)

\* (faulty variant: u0, v0, w0 taken from the final estimate)
StoredPoi_GuessFromCurrent(vr, poi, l) ==
    LET res == [poi.result EXCEPT
                    !.u0 = l.p_current["u"]["t"],
                    !.v0 = l.p_current["v"]["t"],
                    !.zncc = FMul(Half(1), FSub(F(2), l.znssd)),
                    !.iteration = F(l.iteration),
                    !.convergence = l.dp_norm_max]
    IN  [poi EXCEPT
            !.deformation =
                [r \in Rows(vr) |->
                    [c \in PoiCols(vr) |->
                        IF c \in CurrentCols(vr) THEN l.p_current[r][c]
                        ELSE poi.deformation[r][c]]],
            !.result = IF Is3D(vr)
                       THEN [res EXCEPT !.w0 = l.p_current["w"]["t"]]
                       ELSE res]

\* (faulty variant: the ZNCC stored as 1 - znssd)
StoredPoi_OneMinusZnssd(vr, poi, l) ==
    LET res == [poi.result EXCEPT
                    !.u0 = l.p_initial["u"]["t"],
                    !.v0 = l.p_initial["v"]["t"],
                    !.zncc = FSub(F(1), l.znssd),
                    !.iteration = F(l.iteration),
                    !.convergence = l.dp_norm_max]
    IN  [poi EXCEPT
            !.deformation =
                [r \in Rows(vr) |->
                    [c \in PoiCols(vr) |->
                        IF c \in CurrentCols(vr) THEN l.p_current[r][c]
                        ELSE poi.deformation[r][c]]],
            !.result = IF Is3D(vr)
                       THEN [res EXCEPT !.w0 = l.p_initial["w"]["t"]]
                       ELSE res]

\* (faulty variant: the ZNSSD is stored as the ZNCC)
StoredPoi_ZnccIsZnssd(vr, poi, l) ==
    LET res == [poi.result EXCEPT
                    !.u0 = l.p_initial["u"]["t"],
                    !.v0 = l.p_initial["v"]["t"],
                    !.zncc = l.znssd,
                    !.iteration = F(l.iteration),
                    !.convergence = l.dp_norm_max]
    IN  [poi EXCEPT
            !.deformation =
                [r \in Rows(vr) |->
                    [c \in PoiCols(vr) |->
                        IF c \in CurrentCols(vr) THEN l.p_current[r][c]
                        ELSE poi.deformation[r][c]]],
            !.result = IF Is3D(vr)
                       THEN [res EXCEPT !.w0 = l.p_initial["w"]["t"]]
                       ELSE res]

StoredPoi(vr, poi, l) ==
    LET res == [poi.result EXCEPT
                    !.u0 = l.p_initial["u"]["t"],
                    !.v0 = l.p_initial["v"]["t"],
                    !.zncc = FMul(Half(1), FSub(F(2), l.znssd)),
                    !.iteration = F(l.iteration),
                    !.convergence = l.dp_norm_max]
    IN  [poi EXCEPT
            !.deformation =
                [r \in Rows(vr) |->
                    [c \in PoiCols(vr) |->
                        IF c \in CurrentCols(vr) THEN l.p_current[r][c]
                        ELSE poi.deformation[r][c]]],
            !.result = IF Is3D(vr)
                       THEN [res EXCEPT !.w0 = l.p_initial["w"]["t"]]
                       ELSE res]

----------------------------------------------------------------------------
(* Construction: the estimator, the images and the caller's POI list *)

Threads == 0..(MaxWorkers - 1)

\* POI2D / POI3D as the caller hands them over
FreshResult(vr) ==
    IF Is3D(vr)
    THEN [u0 |-> F(0), v0 |-> F(0), w0 |-> F(0), zncc |-> F(0),
          iteration |-> F(0), convergence |-> F(0)]
    ELSE [u0 |-> F(0), v0 |-> F(0), zncc |-> F(0),
          iteration |-> F(0), convergence |-> F(0)]
\* ... or as an earlier run left them
PriorResult(vr) ==
    IF Is3D(vr)
    THEN [u0 |-> F(1), v0 |-> F(1), w0 |-> F(1), zncc |-> F(1),
          iteration |-> F(2), convergence |-> Half(1)]
    ELSE [u0 |-> F(1), v0 |-> F(1), zncc |-> F(1),
          iteration |-> F(2), convergence |-> Half(1)]

MkPoi(ctr, def, res) ==
    [x |-> ctr[1], y |-> ctr[2], z |-> ctr[3], deformation |-> def, result |-> res]

Centers(vr) ==
    {<<x, y, z>> : x \in 0..(Width - 1), y \in 0..(Height - 1),
                   z \in IF Is3D(vr) THEN 0..(Depth - 1) ELSE {0}}
InsideCenter(vr) == <<RadiusX, RadiusY, IF Is3D(vr) THEN RadiusZ ELSE 0>>
OutsideCenter == <<0, 0, 0>>

ZeroGuess(vr) == ZeroDeformation(Rows(vr), PoiCols(vr))
Guesses(vr) ==
    {ZeroGuess(vr), [ZeroGuess(vr) EXCEPT !["u"]["t"] = F(1)]}
    \cup {[ZeroGuess(vr) EXCEPT ![r][c] = NaN] : r \in Rows(vr), c \in {"t", "x"}}
    \cup (IF Is3D(vr) THEN {} ELSE {[ZeroGuess(vr) EXCEPT !["v"]["xx"] = NaN],
                                     [ZeroGuess(vr) EXCEPT !["u"]["xx"] = F(1)]})

StopValues == {NaN} \cup {Half(k) : k \in (-2)..(2 * MaxStop)}
ConvValues == {NaN, F(0), Half(1), F(1)}

Config(vr, img, conv, stop, tn, omp, nc, pois) ==
    [variant |-> vr, image |-> img, conv_criterion |-> conv,
     stop_condition |-> stop, thread_number |-> tn, omp_threads |-> omp,
     callers |-> nc, pois |-> pois]

----------------------------------------------------------------------------
(* FFT-CC: FFTCC2D::compute and FFTCC3D::compute on one POI.  A 2D subset   *)
(* is handled as a 3D one of depth 1.  An image is the set of its bright    *)
(* pixels (value 1, all others 0).  Buffers are functions on 0 .. size-1.   *)

FftKinds == {"FFTCC2D", "FFTCC3D"}
\* the ICGN class with the same POI type
PoiTypeOf(kind) == IF kind = "FFTCC3D" THEN "ICGN3D1" ELSE "ICGN2D1"

\* subset_dim_x, subset_dim_y, subset_dim_z and subset_size
SubsetDims(c) ==
    <<2 * c.rx, 2 * c.ry, IF c.kind = "FFTCC3D" THEN 2 * c.rz ELSE 1>>
SubsetSize(c) == SubsetDims(c)[1] * SubsetDims(c)[2] * SubsetDims(c)[3]
Cells(c) == 0..(SubsetSize(c) - 1)

Pixel(img, pt) == IF pt \in img THEN 1 ELSE 0
\* (int) of a non-NaN float
Trunc(a) == IF a.h >= 0 THEN a.h \div 2 ELSE -((-a.h) \div 2)

\* initial_displacement: the POI's u, v (and w)
InitialDisplacement(c, poi) ==
    <<poi.deformation["u"]["t"], poi.deformation["v"]["t"],
      IF c.kind = "FFTCC3D" THEN poi.deformation["w"]["t"] ELSE F(0)>>

\* the pixel that cell n of the subset buffers is filled from: cell
\* (i * dim_y + j) * dim_x + k is the point (x + k - rx, y + j - ry, z + i - rz)
RefPoint(c, poi, n) ==
    LET d == SubsetDims(c)
        k == n % d[1]
        j == (n \div d[1]) % d[2]
        i == n \div (d[1] * d[2])
    IN  <<poi.x + k - c.rx, poi.y + j - c.ry,
          IF c.kind = "FFTCC3D" THEN poi.z + i - c.rz ELSE poi.z>>
TarPoint(c, poi, n) ==
    LET r == RefPoint(c, poi, n)
        g == InitialDisplacement(c, poi)
    IN  <<Trunc(FAdd(F(r[1]), g[1])), Trunc(FAdd(F(r[2]), g[2])),
          Trunc(FAdd(F(r[3]), g[3]))>>

RECURSIVE SumUpTo(_, _)
SumUpTo(f, n) == IF n < 0 THEN 0 ELSE f[n] + SumUpTo(f, n - 1)
Total(f) == SumUpTo(f, Cardinality(DOMAIN f) - 1)

\* a filled buffer with its mean subtracted, times subset_size (so that the
\* cells stay integers); the common factor changes neither the place of the
\* maximum nor the normalised coefficient
ZeroMean(raw) ==
    LET size == Cardinality(DOMAIN raw)
        sum == Total(raw)
    IN  [n \in DOMAIN raw |-> size * raw[n] - sum]
FilledRef(c, poi) == ZeroMean([n \in Cells(c) |-> Pixel(c.ref, RefPoint(c, poi, n))])
FilledTar(c, poi) == ZeroMean([n \in Cells(c) |-> Pixel(c.tar, TarPoint(c, poi, n))])
\* ref_norm, tar_norm
SquaredNorm(buf) == Total([n \in DOMAIN buf |-> buf[n] * buf[n]])

\* The plans are made for an array of (dim_x, dim_y[, dim_z]) in row-major
\* order: cell n is at (n div (n1*n2), (n div n2) mod n1, n mod n2) with
\* (n0, n1, n2) = (dim_x, dim_y, dim_z), dim_z = 1 in 2D.
PlanDims(c) == SubsetDims(c)
\* the cell at circular lag j from cell n in the plan's array
Lagged(dims, n, j) ==
    LET n1 == dims[2]
        n2 == dims[3]
        a0 == (n \div (n1 * n2) + j \div (n1 * n2)) % dims[1]
        a1 == (((n \div n2) % n1) + ((j \div n2) % n1)) % n1
        a2 == ((n % n2) + (j % n2)) % n2
    IN  (a0 * n1 + a1) * n2 + a2
\* forward transforms of both subsets, zncc_freq = conj(ref_freq) * tar_freq,
\* backward transform: the circular cross-correlation
\* zncc[j] = sum over n of ref[n] * tar[n + j]
CrossCorrelation(c, ref, tar) ==
    [j \in Cells(c) |->
        Total([n \in Cells(c) |-> ref[n] * tar[Lagged(PlanDims(c), n, j)]])]

\* the search: the first cell holding the largest value
MaxZnccIndex(zncc) ==
    CHOOSE k \in DOMAIN zncc :
        /\ \A j \in DOMAIN zncc : zncc[j] <= zncc[k]
        /\ \A j \in DOMAIN zncc : j < k => zncc[j] < zncc[k]

\* local_displacement_u, _v, _w from max_zncc_index
LocalDisplacement(c, index) ==
    LET d == SubsetDims(c)
        u == index % d[1]
        v == (index \div d[1]) % d[2]
        w == index \div (d[1] * d[2])
    IN  <<IF u > c.rx THEN u - d[1] ELSE u,
          IF v > c.ry THEN v - d[2] ELSE v,
          IF c.kind = "FFTCC3D" /\ w > c.rz THEN w - d[3] ELSE w>>

\* max_zncc / (sqrt(ref_norm * tar_norm) * subset_size), to the half below
NormalisedZncc(max_zncc, ref_norm, tar_norm) ==
    IF ref_norm * tar_norm = 0 THEN NaN
    ELSE Half(CHOOSE q \in 0..2 :
                  /\ q * q * ref_norm * tar_norm <= 4 * max_zncc * max_zncc
                  /\ 4 * max_zncc * max_zncc < (q + 1) * (q + 1) * ref_norm * tar_norm)

\* (faulty variant: the local displacement replaces the guess instead of
\* being added to it)
FftStoredPoi_DropsGuess(c, poi, l) ==
    LET g == l.initial_displacement
        d == LocalDisplacement(c, l.max_zncc_index)
        def == [poi.deformation EXCEPT !["u"]["t"] = F(d[1]), !["v"]["t"] = F(d[2])]
        res == [poi.result EXCEPT !.u0 = g[1], !.v0 = g[2],
                    !.zncc = NormalisedZncc(l.max_zncc, l.ref_norm, l.tar_norm)]
    IN  IF c.kind = "FFTCC3D"
        THEN [poi EXCEPT !.deformation = [def EXCEPT !["w"]["t"] = F(d[3])],
                         !.result = [res EXCEPT !.w0 = g[3]]]
        ELSE [poi EXCEPT !.deformation = def, !.result = res]

\* store the final results
FftStoredPoi(c, poi, l) ==
    LET g == l.initial_displacement
        d == LocalDisplacement(c, l.max_zncc_index)
        def == [poi.deformation EXCEPT !["u"]["t"] = FAdd(F(d[1]), g[1]),
                                       !["v"]["t"] = FAdd(F(d[2]), g[2])]
        res == [poi.result EXCEPT !.u0 = g[1], !.v0 = g[2],
                    !.zncc = NormalisedZncc(l.max_zncc, l.ref_norm, l.tar_norm)]
    IN  IF c.kind = "FFTCC3D"
        THEN [poi EXCEPT !.deformation = [def EXCEPT !["w"]["t"] = FAdd(F(d[3]), g[3])],
                         !.result = [res EXCEPT !.w0 = g[3]]]
        ELSE [poi EXCEPT !.deformation = def, !.result = res]

\* FFTCC compute on one POI, start to end
FftCompute(c, poi) ==
    LET ref == FilledRef(c, poi)
        tar == FilledTar(c, poi)
        zncc == CrossCorrelation(c, ref, tar)
        k == MaxZnccIndex(zncc)
    IN  FftStoredPoi(c, poi,
            [initial_displacement |-> InitialDisplacement(c, poi),
             ref_norm |-> SquaredNorm(ref), tar_norm |-> SquaredNorm(tar),
             max_zncc_index |-> k, max_zncc |-> zncc[k]])

----------------------------------------------------------------------------
(* Construction: the configurations *)

\* one POI anywhere in the image with any initial guess
ValidationConfigs ==
    UNION {{Config(vr, "same", Half(1), F(2), 1, 1, 1, <<MkPoi(ctr, g, res)>>) :
                ctr \in Centers(vr), g \in Guesses(vr),
                res \in {FreshResult(vr), PriorResult(vr)}} : vr \in Variants}

\* one accepted POI under every iteration setting and image pair
LoopConfigs ==
    UNION {{Config(vr, img, conv, stop, 1, 1, 1,
                   <<MkPoi(InsideCenter(vr), ZeroGuess(vr), FreshResult(vr))>>) :
                img \in Images, conv \in ConvValues, stop \in StopValues} :
           vr \in Variants}

\* a list of POIs (the first one inside or outside the image), any pool
\* size, any team size
BatchLists(vr) ==
    {[i \in 1..MaxPoi |->
        MkPoi(IF i = 1 THEN ctr ELSE InsideCenter(vr), ZeroGuess(vr), FreshResult(vr))] :
     ctr \in {InsideCenter(vr), OutsideCenter}}
BatchConfigs ==
    UNION {{Config(vr, "shift", Half(1), F(1), tn, omp, 1, pois) :
                tn \in 0..MaxWorkers, omp \in 1..MaxWorkers,
                pois \in BatchLists(vr)} : vr \in Variants}

\* several caller threads share one estimator whose pool is as large as the
\* team
DirectConfigs ==
    UNION {{Config(vr, "shift", Half(1), F(1), MaxWorkers, MaxWorkers, nc, pois) :
                nc \in 2..MaxWorkers, pois \in BatchLists(vr)} : vr \in Variants}

\* FFT-CC has run on the POI before ICGN gets it (the sample's chain: same
\* images, same subset radii, same POI list)
ChainFftConfigs ==
    LET ctr == InsideCenter("ICGN2D1") IN
    {[kind |-> "FFTCC2D", rx |-> RadiusX, ry |-> RadiusY, rz |-> 0,
      ref |-> {<<ctr[1] + a, ctr[2], 0>>},
      tar |-> {<<ctr[1] + a + tx, ctr[2] + ty, 0>>}, shift |-> <<tx, ty, 0>>,
      entry |-> MkPoi(ctr, [ZeroGuess("ICGN2D1") EXCEPT !["u"]["t"] = u0],
                      FreshResult("ICGN2D1"))] :
        a \in {-1, 0}, tx \in (-RadiusX)..RadiusX, ty \in (-RadiusY)..RadiusY,
        u0 \in {F(0), F(1)}}
\* ... the POIs as FFTCC2D::compute leaves them
ChainPois == {FftCompute(c, c.entry) : c \in ChainFftConfigs}
ChainConfigs ==
    {Config(vr, "shift", Half(1), F(2), 1, 1, 1, <<poi>>) :
        vr \in {"ICGN2D1", "ICGN2D2"}, poi \in ChainPois}

Configs ==
    ValidationConfigs \cup LoopConfigs \cup BatchConfigs \cup DirectConfigs
    \cup ChainConfigs

\* FFTW::allocate: the buffers are allocated, nothing is filled
FftEmptyInstance == [ref_subset |-> <<>>, tar_subset |-> <<>>, zncc |-> <<>>]
FftIdleThread ==
    [pc |-> "idle", initial_displacement |-> <<>>, ref_norm |-> 0, tar_norm |-> 0,
     max_zncc_index |-> 0, max_zncc |-> 0]

\* no thread constructs or destroys an FFT-CC estimator
PlannerUnused == [kind |-> "none", critical |-> -1, th |-> <<>>]

\* no FFT-CC estimator computes
FftNotComputing ==
    /\ fft_cfg = [kind |-> "none"]
    /\ fft_poi = <<>>
    /\ fft_inst = FftEmptyInstance
    /\ fft_th = FftIdleThread
\* no FFT-CC estimator is in use
FftUnused == FftNotComputing /\ planner = PlannerUnused

\* no part is exercised on its own
ConvUnused == conv_test = [pc |-> "unused"]
SpeckleUnused == speckle = [pc |-> "unused"]
WarpUnused == warp_test = [pc |-> "unused"]
PrepUnused == prep = [pc |-> "unused"]
PartsUnused == ConvUnused /\ SpeckleUnused /\ WarpUnused /\ PrepUnused

IdleThread ==
    [pc |-> "idle", i |-> 0, tid |-> 0, cur_instance |-> 0, iteration |-> 0,
     p_initial |-> <<>>, p_current |-> <<>>, dp_norm_max |-> F(0), znssd |-> F(0)]

Init ==
    \E c \in Configs :
        /\ variant = c.variant
        /\ image = c.image
        /\ conv_criterion = c.conv_criterion
        /\ stop_condition = c.stop_condition
        /\ instance_pool = NewPool(c.thread_number)
        /\ omp_threads = c.omp_threads
        /\ callers = c.callers
        /\ poi_queue = c.pois
        /\ phase = "ready"
        /\ taken = {}
        /\ th = [t \in Threads |-> IdleThread]
        /\ poi_entry = c.pois
        /\ outcome = [i \in DOMAIN c.pois |-> "none"]
        /\ FftUnused
        /\ PartsUnused

----------------------------------------------------------------------------
(* Operations *)

Indices == DOMAIN poi_queue
Running(l) == l.pc \in {"validate", "loop", "store"}

\* compute(poi_queue): "#pragma omp parallel for" forks the team
ComputeBatch ==
    /\ phase = "ready"
    /\ phase' = "batch"
    /\ UNCHANGED <<partvars, fftvars, variant, image, conv_criterion, stop_condition, instance_pool,
                   omp_threads, callers, poi_queue, taken, th, poi_entry, outcome>>

\* Thread t may start compute(&poi_queue[i]): as a member of the team of the
\* running batch, or as a caller thread of its own when no batch runs.
\* (faulty variant: the loop hands out an index again)
MayCall_AnyIndex(t, i) ==
    /\ th[t].pc = "idle"
    /\ i \in Indices
    /\ \/ phase = "batch" /\ t < omp_threads
       \/ phase \in {"ready", "direct"} /\ t < callers
MayCall(t, i) ==
    /\ th[t].pc = "idle"
    /\ i \in Indices \ taken
    /\ \/ phase = "batch" /\ t < omp_threads
       \/ phase \in {"ready", "direct"} /\ t < callers
PhaseOfCall == IF phase = "batch" THEN "batch" ELSE "direct"

\* compute(poi), first statement: getInstance(omp_get_thread_num()) returns
ComputeEnter(t, i) ==
    LET tid == OmpGetThreadNum(PhaseOfCall, t) IN
    /\ MayCall(t, i)
    /\ ~PoolOverflow(instance_pool, tid)
    /\ th' = [th EXCEPT ![t] = [IdleThread EXCEPT !.pc = "validate", !.i = i,
                    !.tid = tid, !.cur_instance = GetInstance(instance_pool, tid)]]
    /\ taken' = taken \cup {i}
    /\ phase' = PhaseOfCall
    /\ UNCHANGED <<partvars, fftvars, variant, image, conv_criterion, stop_condition, instance_pool,
                   omp_threads, callers, poi_queue, poi_entry, outcome>>

\* ... or throws "CPU thread ID over limit".  Thrown out of the parallel
\* region the exception ends the program; thrown to a direct caller it ends
\* that call.
ComputeThrow(t, i) ==
    LET tid == OmpGetThreadNum(PhaseOfCall, t) IN
    /\ MayCall(t, i)
    /\ PoolOverflow(instance_pool, tid)
    /\ th' = [th EXCEPT ![t] = [IdleThread EXCEPT !.pc = "thrown", !.i = i,
                                                  !.tid = tid]]
    /\ taken' = taken \cup {i}
    /\ phase' = IF phase = "batch" THEN "terminated" ELSE "direct"
    /\ outcome' = [outcome EXCEPT ![i] = "thrown"]
    /\ UNCHANGED <<partvars, fftvars, variant, image, conv_criterion, stop_condition, instance_pool,
                   omp_threads, callers, poi_queue, poi_entry>>

Alive == phase \in {"batch", "direct"}

\* the rejecting branch: poi->result.zncc = -1, and compute returns
Reject(t) ==
    LET i == th[t].i IN
    /\ Alive
    /\ th[t].pc = "validate"
    /\ RejectCond(variant, poi_queue[i])
    /\ poi_queue' = [poi_queue EXCEPT ![i] = RejectedPoi(@)]
    /\ th' = [th EXCEPT ![t] = IdleThread]
    /\ outcome' = [outcome EXCEPT ![i] = "rejected"]
    /\ UNCHANGED <<partvars, fftvars, variant, image, conv_criterion, stop_condition, instance_pool,
                   omp_threads, callers, phase, taken, poi_entry>>

\* the accepting branch up to the do: reference subset, steepest-descent
\* image, Hessian and its inverse, target subset centre, initial guess
SetUp(t) ==
    LET i == th[t].i
        k == th[t].cur_instance
        p0 == PInitial(variant, poi_queue[i])
    IN
    /\ Alive
    /\ th[t].pc = "validate"
    /\ ~RejectCond(variant, poi_queue[i])
    /\ instance_pool' = [instance_pool EXCEPT ![k] = FilledInstance(@, i)]
    /\ th' = [th EXCEPT ![t] = [@ EXCEPT !.pc = "loop", !.iteration = 0,
                    !.p_initial = p0, !.p_current = SetDeformation(variant, p0)]]
    /\ UNCHANGED <<partvars, fftvars, variant, image, conv_criterion, stop_condition, omp_threads,
                   callers, poi_queue, phase, taken, poi_entry, outcome>>

\* The buffers of t's instance still hold what t put there
Coherent(t) ==
    LET s == instance_pool[th[t].cur_instance] IN
    /\ s.ref_subset = th[t].i /\ s.hessian = th[t].i /\ s.tar_subset = th[t].i
    /\ s.tar_iteration = th[t].iteration

\* one pass of the do-while body and the test of its condition
Iterate(t) ==
    LET l == th[t]
        k == l.cur_instance
        iteration == l.iteration + 1
    IN
    /\ Alive
    /\ l.pc = "loop"
    /\ \E out \in IF Coherent(t) THEN {Response(image, variant, l.p_current)}
                  ELSE RacedResponses(variant) :
         LET dp_norm_max == DpNorm(variant, out.dp) IN
         th' = [th EXCEPT ![t] = [@ EXCEPT
                    !.iteration = iteration,
                    !.p_current = Compose(variant, l.p_current, out.dp),
                    !.znssd = out.znssd,
                    !.dp_norm_max = dp_norm_max,
                    !.pc = IF Continue(iteration, stop_condition,
                                       dp_norm_max, conv_criterion)
                           THEN "loop" ELSE "store"]]
    /\ instance_pool' = [instance_pool EXCEPT ![k] =
            IteratedInstance(@, l.i, iteration)]
    /\ UNCHANGED <<partvars, fftvars, variant, image, conv_criterion, stop_condition, omp_threads,
                   callers, poi_queue, phase, taken, poi_entry, outcome>>

\* after the loop: store the final result, and compute returns
Store(t) ==
    LET i == th[t].i IN
    /\ Alive
    /\ th[t].pc = "store"
    /\ poi_queue' = [poi_queue EXCEPT ![i] = StoredPoi(variant, @, th[t])]
    /\ th' = [th EXCEPT ![t] = IdleThread]
    /\ outcome' = [outcome EXCEPT ![i] = "refined"]
    /\ UNCHANGED <<partvars, fftvars, variant, image, conv_criterion, stop_condition, instance_pool,
                   omp_threads, callers, phase, taken, poi_entry>>

\* the implicit barrier at the end of the parallel for: compute(poi_queue)
\* returns
BatchReturn ==
    /\ phase = "batch"
    /\ taken = Indices
    /\ \A t \in Threads : th[t].pc = "idle"
    /\ phase' = "returned"
    /\ UNCHANGED <<partvars, fftvars, variant, image, conv_criterion, stop_condition, instance_pool,
                   omp_threads, callers, poi_queue, taken, th, poi_entry, outcome>>

Next ==
    \/ ComputeBatch
    \/ \E t \in Threads, i \in Indices : ComputeEnter(t, i)
    \/ \E t \in Threads, i \in Indices : ComputeThrow(t, i)
    \/ \E t \in Threads : Reject(t)
    \/ \E t \in Threads : SetUp(t)
    \/ \E t \in Threads : Iterate(t)
    \/ \E t \in Threads : Store(t)
    \/ BatchReturn

Spec == Init /\ [][Next]_vars

----------------------------------------------------------------------------
(* FFT-CC: construction and compute(poi), step by step *)

\* the POI sits far enough from the border for every subset and guess used
FftCenter(kind) ==
    LET m == 2 * MaxFftRadius + 1
    IN  <<m, m, IF kind = "FFTCC3D" THEN m ELSE 0>>

\* the POI as the caller hands it over: a displacement guess, and gradient
\* components and a result record left by earlier work
FftGuess(kind, u0) ==
    [ZeroGuess(PoiTypeOf(kind)) EXCEPT !["u"]["t"] = u0, !["u"]["x"] = Half(1),
                                      !["v"]["y"] = F(1)]
FftPoi(kind, u0) ==
    MkPoi(FftCenter(kind), FftGuess(kind, u0), PriorResult(PoiTypeOf(kind)))

Shifted(img, t) == {<<pt[1] + t[1], pt[2] + t[2], pt[3] + t[3]>> : pt \in img}

FftConfig(kind, rx, ry, rz, ref, t, poi) ==
    [kind |-> kind, rx |-> rx, ry |-> ry, rz |-> rz, ref |-> ref,
     tar |-> Shifted(ref, t), shift |-> t, entry |-> poi]

\* 2D: one speckle next to the POI (or no texture at all), the target is the
\* reference moved by up to a radius along each axis
FftConfigs2D ==
    LET ctr == FftCenter("FFTCC2D") IN
    UNION {{FftConfig("FFTCC2D", rx, ry, 0, ref, <<tx, ty, 0>>, FftPoi("FFTCC2D", u0)) :
                tx \in (-rx)..rx, ty \in (-ry)..ry,
                ref \in {{}} \cup {{<<ctr[1] + a, ctr[2] + b, 0>>} :
                                        a \in {-1, 0}, b \in {-1, 0}},
                u0 \in {F(0), F(1), Half(1)}} :
           rx \in 1..MaxFftRadius, ry \in 1..MaxFftRadius}
\* 3D: one speckle at the POI
FftConfigs3D ==
    LET ctr == FftCenter("FFTCC3D") IN
    UNION {{FftConfig("FFTCC3D", rx, 1, 1, {ctr}, <<tx, ty, tz>>, FftPoi("FFTCC3D", F(0))) :
                tx \in (-rx)..rx, ty \in (-1)..1, tz \in (-1)..1} :
           rx \in 1..MaxFftRadius}
FftConfigs == FftConfigs2D \cup FftConfigs3D

\* no ICGN estimator is in use
IcgnUnused ==
    /\ variant = "ICGN2D1"
    /\ image = "same"
    /\ conv_criterion = F(0)
    /\ stop_condition = F(0)
    /\ instance_pool = NewPool(0)
    /\ omp_threads = 1
    /\ callers = 1
    /\ poi_queue = <<>>
    /\ phase = "unused"
    /\ taken = {}
    /\ th = [t \in Threads |-> IdleThread]
    /\ poi_entry = <<>>
    /\ outcome = <<>>

FftInit ==
    /\ IcgnUnused
    /\ PartsUnused
    /\ \E c \in FftConfigs :
           /\ fft_cfg = c
           /\ fft_poi = c.entry
    /\ fft_inst = FftEmptyInstance
    /\ fft_th = FftIdleThread
    /\ planner = PlannerUnused

\* compute(poi): getInstance, the subset sizes and initial_displacement
FftEnter ==
    /\ fft_th.pc = "idle"
    /\ fft_th' = [fft_th EXCEPT !.pc = "fill",
                     !.initial_displacement = InitialDisplacement(fft_cfg, fft_poi)]
    /\ UNCHANGED <<partvars, icgnvars, fft_cfg, fft_poi, fft_inst, planner>>

\* both subsets filled, means subtracted, norms summed
FftFill ==
    LET ref == FilledRef(fft_cfg, fft_poi)
        tar == FilledTar(fft_cfg, fft_poi)
    IN
    /\ fft_th.pc = "fill"
    /\ fft_inst' = [fft_inst EXCEPT !.ref_subset = ref, !.tar_subset = tar]
    /\ fft_th' = [fft_th EXCEPT !.pc = "correlate",
                     !.ref_norm = SquaredNorm(ref), !.tar_norm = SquaredNorm(tar)]
    /\ UNCHANGED <<partvars, icgnvars, fft_cfg, fft_poi, planner>>

\* the two forward transforms, the product and the backward transform
FftCorrelate ==
    /\ fft_th.pc = "correlate"
    /\ fft_inst' = [fft_inst EXCEPT !.zncc =
            CrossCorrelation(fft_cfg, fft_inst.ref_subset, fft_inst.tar_subset)]
    /\ fft_th' = [fft_th EXCEPT !.pc = "search"]
    /\ UNCHANGED <<partvars, icgnvars, fft_cfg, fft_poi, planner>>

\* the search for the maximum, the decoding and the write-back
FftStore ==
    LET k == MaxZnccIndex(fft_inst.zncc)
        l == [fft_th EXCEPT !.max_zncc_index = k, !.max_zncc = fft_inst.zncc[k]]
    IN
    /\ fft_th.pc = "search"
    /\ fft_poi' = FftStoredPoi(fft_cfg, fft_poi, l)
    /\ fft_th' = [l EXCEPT !.pc = "done"]
    /\ UNCHANGED <<partvars, icgnvars, fft_cfg, fft_inst, planner>>

FftNext == FftEnter \/ FftFill \/ FftCorrelate \/ FftStore

SpecFFTCC == FftInit /\ [][FftNext]_vars

----------------------------------------------------------------------------
(* FFT-CC: construction and destruction of estimators by several threads.  *)
(* Thread t runs "new FFTCC2D(rx, ry, thread_number)" (or FFTCC3D) and     *)
(* then "delete" on its own estimator.  A planner call (fftwf_plan_dft_*,  *)
(* fftwf_destroy_plan) takes time: it begins and it returns.               *)

PlannerThread(pc, n) ==
    [pc |-> pc,          \* "absent", "construct", "critical", "constructed",
                         \* "release", "destroyed"
     left |-> n,         \* instances the constructor has still to allocate
     owned |-> 0,        \* instances in instance_pool
     calls |-> 0,        \* planner calls still to make for the current instance
     inside |-> "none"]  \* the planner call the thread is executing

PlannerInit ==
    /\ IcgnUnused
    /\ PartsUnused
    /\ FftNotComputing
    /\ \E kind \in FftKinds, n \in 1..MaxWorkers, users \in 1..MaxWorkers :
           planner = [kind |-> kind, critical |-> -1,
                      th |-> [t \in Threads |->
                                 PlannerThread(IF t < users THEN "construct"
                                               ELSE "absent", n)]]

\* FFTW::allocate up to "#pragma omp critical": the buffers are allocated and
\* the thread enters the critical section when no thread is in it
CriticalEnter(t) ==
    LET l == planner.th[t] IN
    /\ l.pc = "construct"
    /\ planner.critical = -1
    /\ planner' = [planner EXCEPT !.critical = t,
                       !.th[t] = [l EXCEPT !.pc = "critical", !.calls = 3]]
    /\ UNCHANGED <<partvars, icgnvars, fft_cfg, fft_poi, fft_inst, fft_th>>

\* the next of the three fftwf_plan_dft_* calls (in the critical section) or
\* fftwf_destroy_plan calls (in FFTW::release) begins
PlannerCall(t) ==
    LET l == planner.th[t] IN
    /\ l.pc \in {"critical", "release"}
    /\ l.calls > 0
    /\ l.inside = "none"
    /\ planner' = [planner EXCEPT !.th[t] = [l EXCEPT !.inside =
                       IF l.pc = "critical" THEN "plan" ELSE "destroy_plan"]]
    /\ UNCHANGED <<partvars, icgnvars, fft_cfg, fft_poi, fft_inst, fft_th>>

\* ... and returns
PlannerReturn(t) ==
    LET l == planner.th[t] IN
    /\ l.inside # "none"
    /\ planner' = [planner EXCEPT !.th[t] = [l EXCEPT !.inside = "none",
                                                       !.calls = l.calls - 1]]
    /\ UNCHANGED <<partvars, icgnvars, fft_cfg, fft_poi, fft_inst, fft_th>>

\* end of the critical section, FFTW::allocate returns and the constructor
\* pushes the instance to instance_pool
CriticalLeave(t) ==
    LET l == planner.th[t] IN
    /\ l.pc = "critical"
    /\ l.calls = 0
    /\ planner' = [planner EXCEPT !.critical = -1,
                       !.th[t] = [l EXCEPT !.left = l.left - 1,
                                           !.owned = l.owned + 1,
                                           !.pc = IF l.left = 1 THEN "constructed"
                                                  ELSE "construct"]]
    /\ UNCHANGED <<partvars, icgnvars, fft_cfg, fft_poi, fft_inst, fft_th>>

\* the destructor's loop calls FFTW::release on the next instance: the
\* buffers are freed, the three plans are to be destroyed
Release(t) ==
    LET l == planner.th[t] IN
    /\ l.pc = "constructed"
    /\ l.owned > 0
    /\ planner' = [planner EXCEPT !.th[t] = [l EXCEPT !.pc = "release", !.calls = 3]]
    /\ UNCHANGED <<partvars, icgnvars, fft_cfg, fft_poi, fft_inst, fft_th>>

\* FFTW::release returns and the instance is deleted
Released(t) ==
    LET l == planner.th[t] IN
    /\ l.pc = "release"
    /\ l.calls = 0
    /\ planner' = [planner EXCEPT !.th[t] = [l EXCEPT !.owned = l.owned - 1,
                                           !.pc = IF l.owned = 1 THEN "destroyed"
                                                  ELSE "constructed"]]
    /\ UNCHANGED <<partvars, icgnvars, fft_cfg, fft_poi, fft_inst, fft_th>>

PlannerNext ==
    \E t \in Threads :
        \/ CriticalEnter(t)
        \/ PlannerCall(t)
        \/ PlannerReturn(t)
        \/ CriticalLeave(t)
        \/ Release(t)
        \/ Released(t)

SpecPlanner == PlannerInit /\ [][PlannerNext]_vars

----------------------------------------------------------------------------
(* ICGN: the convergence test at the end of a pass, applied to any increment *)

\* increments: any translation along one axis, any one gradient component
Increments(vr) ==
    LET zero == ZeroDeformation(Rows(vr), CurrentCols(vr)) IN
    {[[zero EXCEPT ![r1]["t"] = a] EXCEPT ![r2][c2] = b] :
        r1 \in Rows(vr), r2 \in Rows(vr), c2 \in CurrentCols(vr) \ {"t"},
        a \in {F(0), Half(1), F(1)}, b \in {F(0), Half(1), F(-1), F(2), NaN}}

ConvInit ==
    /\ IcgnUnused
    /\ FftUnused
    /\ SpeckleUnused
    /\ WarpUnused
    /\ PrepUnused
    /\ \E vr \in Variants, conv \in ConvValues, iteration \in 1..MaxStop :
         \E dp \in Increments(vr) :
           conv_test = [pc |-> "pass", variant |-> vr, p_increment |-> dp,
                        conv_criterion |-> conv, stop_condition |-> F(MaxStop),
                        iteration |-> iteration, dp_norm_max |-> F(0),
                        again |-> FALSE]

\* "check convergence" and the condition of the do-while
ConvergenceTest ==
    LET l == conv_test
        dp_norm_max == DpNorm(l.variant, l.p_increment)
    IN
    /\ l.pc = "pass"
    /\ conv_test' = [l EXCEPT !.pc = "tested", !.dp_norm_max = dp_norm_max,
                        !.again = Continue(l.iteration, l.stop_condition,
                                           dp_norm_max, l.conv_criterion)]
    /\ UNCHANGED <<icgnvars, fftvars, speckle, warp_test, prep>>

SpecConvergence == ConvInit /\ [][ConvergenceTest]_vars

----------------------------------------------------------------------------
(* FFT-CC: FFTCC2D::determineSpeckleSize(poi, half_peak_ratio) with        *)
(* half_peak_ratio = 1/2.  The autocorrelation buffer holds the numerators *)
(* of zncc[i] over the common denominator ref_norm.                        *)

\* one or two speckles next to the POI, or a bright line through the POI
\* along x or along y; subsets of every radius
SpeckleImages ==
    LET ctr == FftCenter("FFTCC2D")
        spots == {<<ctr[1] + a, ctr[2] + b, 0>> : a \in {-1, 0}, b \in {-1, 0}}
        span == (-MaxFftRadius)..(MaxFftRadius - 1)
    IN  {img \in SUBSET spots : Cardinality(img) \in {1, 2}}
        \cup {{<<ctr[1] + a, ctr[2], 0>> : a \in span},
               {<<ctr[1], ctr[2] + b, 0>> : b \in span}}
SpeckleConfigs ==
    {FftConfig("FFTCC2D", rx, ry, 0, ref, <<0, 0, 0>>,
               MkPoi(FftCenter("FFTCC2D"), ZeroGuess("ICGN2D1"), FreshResult("ICGN2D1"))) :
        rx \in 1..MaxFftRadius, ry \in 1..MaxFftRadius, ref \in SpeckleImages}

\* reference subset filled and made zero-mean, copied to the target subset,
\* transformed, multiplied and transformed back
Autocorrelation(c) ==
    LET ref == FilledRef(c, c.entry) IN CrossCorrelation(c, ref, ref)

\* (faulty variant: the wrap tests >= subset_radius)
ShiftedCell_WrapsAtRadius(c, i) ==
    LET d == SubsetDims(c)
        shift_c == i % d[1]
        shift_r == i \div d[1]
    IN  <<(IF shift_r >= c.ry THEN shift_r - d[2] ELSE shift_r) + c.ry - 1,
          (IF shift_c >= c.rx THEN shift_c - d[1] ELSE shift_c) + c.rx - 1>>
\* <<shift_r, shift_c>>: where cell i of the buffer goes in zncc_matrix
ShiftedCell(c, i) ==
    LET d == SubsetDims(c)
        shift_c == i % d[1]
        shift_r == i \div d[1]
    IN  <<(IF shift_r > c.ry THEN shift_r - d[2] ELSE shift_r) + c.ry - 1,
          (IF shift_c > c.rx THEN shift_c - d[1] ELSE shift_c) + c.rx - 1>>
MatrixCells(c) ==
    {<<r, col>> : r \in 0..(SubsetDims(c)[2] - 1), col \in 0..(SubsetDims(c)[1] - 1)}
\* zncc_matrix: zero, then every buffer cell assigned in the order of i
ZnccMatrix(c, zncc) ==
    [cell \in MatrixCells(c) |->
        LET from == {i \in Cells(c) : ShiftedCell(c, i) = cell}
        IN  IF from = {} THEN 0
            ELSE zncc[CHOOSE i \in from : \A j \in from : j <= i]]

\* One of the four search loops: from position n0 outwards in direction dir
\* along a line of zncc_matrix, n0 steps.  at(k) is the cell of position k,
\* junk the value an out-of-range read returns.
AboveHalfPeak(z, norm) == 2 * z > norm
HalfPeakSearch(m, axis, fixed, n0, dir, norm, junk) ==
    LET at(k) == IF axis = "x" THEN <<fixed, k>> ELSE <<k, fixed>>
        val(k) == IF at(k) \in DOMAIN m THEN m[at(k)] ELSE junk
        x1(i) == n0 + dir * i
        x2(i) == x1(i) + dir
        hits == {i \in 0..(n0 - 1) :
                    AboveHalfPeak(val(x1(i)), norm) /\ ~AboveHalfPeak(val(x2(i)), norm)}
        hit == CHOOSE i \in hits : \A j \in hits : i <= j
        last == IF hits = {} THEN n0 - 1 ELSE hit
        reads == {at(x1(i)) : i \in 0..last}
                 \cup {at(x2(i)) : i \in {j \in 0..last : AboveHalfPeak(val(x1(j)), norm)}}
    IN  IF hits = {}
        THEN [found |-> FALSE, x1 |-> 0, x2 |-> 0, z1 |-> 0, z2 |-> 0,
              crossing |-> 0, reads |-> reads]
        ELSE [found |-> TRUE, x1 |-> x1(hit), x2 |-> x2(hit),
              z1 |-> val(x1(hit)), z2 |-> val(x2(hit)),
              \* x2 - (x2 - x1) * (ratio - z(x2)) * (z(x1) - z(x2)), in
              \* units of 1 / (2 * norm^2)
              crossing |-> x2(hit) * 2 * norm * norm
                           - (x2(hit) - x1(hit)) * (norm - 2 * val(x2(hit)))
                             * (val(x1(hit)) - val(x2(hit))),
              reads |-> reads]

SpeckleInit ==
    /\ IcgnUnused
    /\ FftUnused
    /\ ConvUnused
    /\ WarpUnused
    /\ PrepUnused
    /\ \E c \in SpeckleConfigs :
           speckle = [pc |-> "correlate", cfg |-> c, ref_norm |-> 0, zncc |-> <<>>,
                      written |-> <<>>, zncc_matrix |-> <<>>,
                      right |-> <<>>, left |-> <<>>, down |-> <<>>, up |-> <<>>,
                      speckle_size |-> <<0, 0>>]

\* the subsets, the transforms, ref_norm
SpeckleCorrelate ==
    /\ speckle.pc = "correlate"
    /\ speckle' = [speckle EXCEPT !.pc = "shift",
                       !.zncc = Autocorrelation(speckle.cfg),
                       !.ref_norm = SquaredNorm(FilledRef(speckle.cfg, speckle.cfg.entry))]
    /\ UNCHANGED <<icgnvars, fftvars, conv_test, warp_test, prep>>

\* normalise the zncc and shift the peak to the center of the subset
SpeckleShift ==
    /\ speckle.pc = "shift"
    /\ speckle' = [speckle EXCEPT !.pc = "search_x",
                       !.written = [i \in Cells(speckle.cfg) |-> ShiftedCell(speckle.cfg, i)],
                       !.zncc_matrix = ZnccMatrix(speckle.cfg, speckle.zncc)]
    /\ UNCHANGED <<icgnvars, fftvars, conv_test, warp_test, prep>>

\* search half-peak breadth along x: the two loops
SpeckleSearchX ==
    LET c == speckle.cfg
        x0 == c.rx - 1
        y0 == c.ry - 1
    IN
    /\ speckle.pc = "search_x"
    /\ \E junk \in {0, speckle.ref_norm} :
           speckle' = [speckle EXCEPT !.pc = "search_y",
               !.right = HalfPeakSearch(speckle.zncc_matrix, "x", y0, x0, 1,
                                        speckle.ref_norm, junk),
               !.left = HalfPeakSearch(speckle.zncc_matrix, "x", y0, x0, -1,
                                       speckle.ref_norm, junk)]
    /\ UNCHANGED <<icgnvars, fftvars, conv_test, warp_test, prep>>

\* search half-peak breadth along y, and the returned size
SpeckleSearchY ==
    LET c == speckle.cfg
        x0 == c.rx - 1
        y0 == c.ry - 1
    IN
    /\ speckle.pc = "search_y"
    /\ \E junk \in {0, speckle.ref_norm} :
           LET down == HalfPeakSearch(speckle.zncc_matrix, "y", x0, y0, 1,
                                      speckle.ref_norm, junk)
               up == HalfPeakSearch(speckle.zncc_matrix, "y", x0, y0, -1,
                                    speckle.ref_norm, junk)
           IN  speckle' = [speckle EXCEPT !.pc = "done", !.down = down, !.up = up,
                   !.speckle_size = <<speckle.right.crossing - speckle.left.crossing,
                                      down.crossing - up.crossing>>]
    /\ UNCHANGED <<icgnvars, fftvars, conv_test, warp_test, prep>>

SpeckleNext == SpeckleCorrelate \/ SpeckleShift \/ SpeckleSearchX \/ SpeckleSearchY

SpecSpeckle == SpeckleInit /\ [][SpeckleNext]_vars

----------------------------------------------------------------------------
(* ICGN2D1::compute: p_current as scalar fields and as warp matrix *)

FDiv(a, b) == IF a.nan \/ b.nan \/ b.h = 0 THEN NaN ELSE Half(TowardZero(2 * a.h, b.h))

\* Deformation2D1::setDeformation(scalars) rebuilds the warp matrix
\*   [1 + ux, uy, u; vx, 1 + vy, v; 0, 0, 1]
WarpMatrix2D1(p) ==
    <<<<FAdd(F(1), p["u"]["x"]), p["u"]["y"], p["u"]["t"]>>,
      <<p["v"]["x"], FAdd(F(1), p["v"]["y"]), p["v"]["t"]>>,
      <<F(0), F(0), F(1)>>>>
\* Deformation2D1::setDeformation() reads the scalars back from the matrix
ReadBack2D1(m) ==
    [r \in {"u", "v"} |->
        LET i == IF r = "u" THEN 1 ELSE 2 IN
        [c \in {"t", "x", "y"} |->
            IF c = "t" THEN m[i][3]
            ELSE IF (c = "x") = (r = "u") THEN FSub(m[i][i], F(1))
            ELSE m[i][3 - i]]]
\* Deformation2D1::warp(local): the matrix applied to (x, y, 1)
WarpOf(m, local) ==
    [r \in {"u", "v"} |->
        LET i == IF r = "u" THEN 1 ELSE 2 IN
        FAdd(FAdd(FMul(m[i][1], F(local[1])), FMul(m[i][2], F(local[2]))), m[i][3])]
\* the map the scalars stand for: x' = x + u + ux x + uy y, likewise y'
MapOf(p, local) ==
    [r \in {"u", "v"} |->
        FAdd(FAdd(F(IF r = "u" THEN local[1] ELSE local[2]), p[r]["t"]),
             FAdd(FMul(p[r]["x"], F(local[1])), FMul(p[r]["y"], F(local[2]))))]

\* operator * and inverse() of 3 x 3 matrices (by cofactors)
MatMul(a, b) ==
    [i \in 1..3 |-> [j \in 1..3 |->
        FAdd(FAdd(FMul(a[i][1], b[1][j]), FMul(a[i][2], b[2][j])),
             FMul(a[i][3], b[3][j]))]]
Inverse(m) ==
    LET others(i) == IF i = 1 THEN <<2, 3>> ELSE IF i = 2 THEN <<1, 3>> ELSE <<1, 2>>
        minor(i, j) ==
            LET rs == others(i)
                cs == others(j)
            IN  FSub(FMul(m[rs[1]][cs[1]], m[rs[2]][cs[2]]),
                     FMul(m[rs[1]][cs[2]], m[rs[2]][cs[1]]))
        cofactor(i, j) == IF (i + j) % 2 = 0 THEN minor(i, j)
                          ELSE FSub(F(0), minor(i, j))
        determinant ==
            FAdd(FAdd(FMul(m[1][1], cofactor(1, 1)), FMul(m[1][2], cofactor(1, 2))),
                 FMul(m[1][3], cofactor(1, 3)))
    IN  [i \in 1..3 |-> [j \in 1..3 |-> FDiv(cofactor(j, i), determinant)]]

Loaded(p) == [scalars |-> p, warp_matrix |-> WarpMatrix2D1(p)]

\* (faulty variant: the scalar fields are not refreshed after the update)
UpdatedEstimate_NoRefresh(p_current, dp) ==
    [p_current EXCEPT !.warp_matrix =
        MatMul(p_current.warp_matrix, Inverse(Loaded(dp).warp_matrix))]
\* p_increment.setDeformation(dp); p_current.warp_matrix =
\* p_current.warp_matrix * p_increment.warp_matrix.inverse();
\* p_current.setDeformation()
UpdatedEstimate(p_current, dp) ==
    LET p_increment == Loaded(dp)
        product == MatMul(p_current.warp_matrix, Inverse(p_increment.warp_matrix))
    IN  [scalars |-> ReadBack2D1(product), warp_matrix |-> product]

\* initial guesses and increments of one call (invertible increments, or NaN)
WarpDeformation(u, ux, uy, v, vx, vy) ==
    [r \in {"u", "v"} |-> [c \in {"t", "x", "y"} |->
        IF r = "u" THEN (IF c = "t" THEN u ELSE IF c = "x" THEN ux ELSE uy)
        ELSE (IF c = "t" THEN v ELSE IF c = "x" THEN vx ELSE vy)]]
WarpGuesses ==
    {WarpDeformation(u, ux, uy, Half(1), F(0), Half(-1)) :
        u \in {F(0), NaN}, ux \in {F(0), Half(1)}, uy \in {F(0), F(1)}}
WarpIncrements ==
    {WarpDeformation(u, ux, uy, F(0), F(0), F(0)) :
        u \in {F(0), Half(1), NaN}, ux \in {F(0), F(1)}, uy \in {F(0), F(-1)}}

WarpInit ==
    /\ IcgnUnused
    /\ FftUnused
    /\ ConvUnused
    /\ SpeckleUnused
    /\ PrepUnused
    /\ \E p \in WarpGuesses :
         warp_test = [pc |-> "setup", deformation |-> p, p_initial |-> p,
                      p_current |-> Loaded(WarpDeformation(F(0), F(0), F(0),
                                                           F(0), F(0), F(0))),
                      iteration |-> 0]

\* p_initial from the POI, p_current.setDeformation(p_initial)
WarpSetUp ==
    /\ warp_test.pc = "setup"
    /\ warp_test' = [warp_test EXCEPT !.pc = "loop",
                        !.p_current = Loaded(warp_test.p_initial)]
    /\ UNCHANGED <<icgnvars, fftvars, conv_test, speckle, prep>>

\* one pass of the do-while body, with any increment, and its condition
WarpPass ==
    LET l == warp_test
        iteration == l.iteration + 1
    IN
    /\ l.pc = "loop"
    /\ \E dp \in WarpIncrements :
         warp_test' = [l EXCEPT
            !.iteration = iteration,
            !.p_current = UpdatedEstimate(l.p_current, dp),
            !.pc = IF Continue(iteration, F(MaxStop), DpNorm("ICGN2D1", dp), Half(1))
                   THEN "loop" ELSE "store"]
    /\ UNCHANGED <<icgnvars, fftvars, conv_test, speckle, prep>>

\* the scalar fields of p_current are written to the POI
WarpStore ==
    /\ warp_test.pc = "store"
    /\ warp_test' = [warp_test EXCEPT !.pc = "done",
                        !.deformation = warp_test.p_current.scalars]
    /\ UNCHANGED <<icgnvars, fftvars, conv_test, speckle, prep>>

WarpNext == WarpSetUp \/ WarpPass \/ WarpStore

SpecWarp == WarpInit /\ [][WarpNext]_vars

----------------------------------------------------------------------------
(* ICGN2D1: the gradient and interpolator objects the estimator owns *)

\* calls made on one estimator before it is destroyed
MaxCalls == 5

NullPtr == 0
ImagePairs == {1, 2}

\* new: the object gets the next address; delete: the object at the address
\* is freed once more (delete of a null pointer does nothing)
New(heap, kind, img) == Append(heap, [kind |-> kind, from |-> img, frees |-> 0])
Delete(heap, ptr) ==
    IF ptr = NullPtr THEN heap ELSE [heap EXCEPT ![ptr].frees = @ + 1]

\* (faulty variant: the previous gradient object is not deleted)
PreparedRef_KeepsOld(s) ==
    LET heap == New(s.heap, "gradient", s.ref_img) IN
    [s EXCEPT !.heap = heap, !.ref_gradient = Len(heap), !.ref_prepared = s.ref_img]
\* prepareRef()
PreparedRef(s) ==
    LET freed == IF s.ref_gradient # NullPtr THEN Delete(s.heap, s.ref_gradient)
                 ELSE s.heap
        heap == New(freed, "gradient", s.ref_img)
    IN  [s EXCEPT !.heap = heap, !.ref_gradient = Len(heap),
                  !.ref_prepared = s.ref_img]
\* prepareTar()
PreparedTar(s) ==
    LET freed == IF s.tar_interp # NullPtr THEN Delete(s.heap, s.tar_interp)
                 ELSE s.heap
        heap == New(freed, "interpolator", s.tar_img)
    IN  [s EXCEPT !.heap = heap, !.tar_interp = Len(heap),
                  !.tar_prepared = s.tar_img]
\* ~ICGN2D1()
Destroyed(s) ==
    [s EXCEPT !.heap = Delete(Delete(s.heap, s.ref_gradient), s.tar_interp),
              !.pc = "destroyed"]
\* compute(poi) reads ref_gradient->gradient_x, gradient_y and calls
\* tar_interp->compute
Computed(s) ==
    [s EXCEPT !.used = @ \cup {s.ref_gradient, s.tar_interp},
              !.used_freed = @ \/ s.heap[s.ref_gradient].frees > 0
                               \/ s.heap[s.tar_interp].frees > 0]
Called(s) == [s EXCEPT !.calls = @ + 1]

\* the estimator after its constructor
PrepInit ==
    /\ IcgnUnused
    /\ FftUnused
    /\ ConvUnused
    /\ SpeckleUnused
    /\ WarpUnused
    /\ prep = [pc |-> "constructed", ref_img |-> <<>>, tar_img |-> <<>>,
               ref_gradient |-> NullPtr, tar_interp |-> NullPtr, heap |-> <<>>,
               ref_prepared |-> <<>>, tar_prepared |-> <<>>,
               used |-> {}, used_freed |-> FALSE, calls |-> 0]

InUse == prep.pc = "constructed" /\ prep.calls < MaxCalls
PrepFrame == UNCHANGED <<icgnvars, fftvars, conv_test, speckle, warp_test>>

\* setImages(ref_img, tar_img)
PrepSetImages ==
    /\ InUse
    /\ \E k \in ImagePairs :
         prep' = Called([prep EXCEPT !.ref_img = <<"ref", k>>, !.tar_img = <<"tar", k>>])
    /\ PrepFrame

\* prepareRef(); without a reference image *ref_img is a null dereference
PrepareRef ==
    /\ InUse
    /\ prep' = IF prep.ref_img = <<>> THEN [prep EXCEPT !.pc = "crashed"]
               ELSE Called(PreparedRef(prep))
    /\ PrepFrame

PrepareTar ==
    /\ InUse
    /\ prep' = IF prep.tar_img = <<>> THEN [prep EXCEPT !.pc = "crashed"]
               ELSE Called(PreparedTar(prep))
    /\ PrepFrame

\* prepare(): prepareRef(), then prepareTar()
Prepare ==
    /\ InUse
    /\ prep' = IF prep.ref_img = <<>> THEN [prep EXCEPT !.pc = "crashed"]
               ELSE Called(PreparedTar(PreparedRef(prep)))
    /\ PrepFrame

\* compute(poi) of a POI that passes the validation; before prepareRef and
\* prepareTar it dereferences a null pointer
PrepCompute ==
    /\ InUse
    /\ prep.ref_img # <<>>
    /\ prep' = IF prep.ref_gradient = NullPtr \/ prep.tar_interp = NullPtr
               THEN [prep EXCEPT !.pc = "crashed"]
               ELSE Called(Computed(prep))
    /\ PrepFrame

\* the destructor
PrepDestroy ==
    /\ prep.pc = "constructed"
    /\ prep' = Destroyed(prep)
    /\ PrepFrame

PrepNext ==
    \/ PrepSetImages
    \/ PrepareRef
    \/ PrepareTar
    \/ Prepare
    \/ PrepCompute
    \/ PrepDestroy

SpecPrepare == PrepInit /\ [][PrepNext]_vars

----------------------------------------------------------------------------
(* Properties *)

PoolSize == Cardinality(DOMAIN instance_pool)
Decided(i) == outcome[i] \in {"rejected", "refined"}

\* the (2r+1) subset of a POI reaches outside the reference image
SubsetOutside(vr, poi) ==
    \/ poi.x - RadiusX < 0 \/ poi.x + RadiusX > Width - 1
    \/ poi.y - RadiusY < 0 \/ poi.y + RadiusY > Height - 1
    \/ Is3D(vr) /\ (poi.z - RadiusZ < 0 \/ poi.z + RadiusZ > Depth - 1)
NaNDisplacement(poi) ==
    IsNaN(poi.deformation["u"]["t"]) \/ IsNaN(poi.deformation["v"]["t"])

\* C1 as claimed: compute(poi) rejects a POI (zncc = -1, no refinement)
\* exactly when its subset extends outside the reference image; every POI
\* whose subset lies inside is refined.
C1_RejectsExactlyOutside ==
    \A i \in Indices : Decided(i) =>
        /\ (outcome[i] = "rejected") <=> SubsetOutside(variant, poi_entry[i])
        /\ outcome[i] = "rejected" => poi_queue[i].result.zncc = F(-1)

\* C1 as amended: compute(poi) rejects a POI exactly when its subset extends
\* outside the reference image or, in ICGN2D1 and ICGN2D2, its initial u or
\* v is NaN; every other POI is refined.
C1_RejectsOutsideOrNaN ==
    \A i \in Indices : Decided(i) =>
        /\ (outcome[i] = "rejected") <=>
               \/ SubsetOutside(variant, poi_entry[i])
               \/ ~Is3D(variant) /\ NaNDisplacement(poi_entry[i])
        /\ outcome[i] = "rejected" => poi_queue[i].result.zncc = F(-1)

\* a 2D POI whose subset is inside the image was rejected for its NaN guess
C1_Witness ==
    \E i \in Indices :
        /\ outcome[i] = "rejected"
        /\ ~SubsetOutside(variant, poi_entry[i])
        /\ poi_queue[i].result.zncc = F(-1)

\* C2: a rejected POI differs from the POI on entry in result.zncc only:
\* centre, every deformation component, u0, v0, w0, iteration and
\* convergence are as they were before the call.
C2_RejectChangesOnlyZncc ==
    \A i \in Indices : outcome[i] = "rejected" =>
        LET now == poi_queue[i]
            was == poi_entry[i]
        IN  /\ now.x = was.x /\ now.y = was.y /\ now.z = was.z
            /\ now.deformation = was.deformation
            /\ now.result.u0 = was.result.u0
            /\ now.result.v0 = was.result.v0
            /\ Is3D(variant) => now.result.w0 = was.result.w0
            /\ now.result.iteration = was.result.iteration
            /\ now.result.convergence = was.result.convergence
            /\ now.result.zncc = F(-1)

\* a POI that came with a non-zero guess and the record of an earlier run
\* was rejected
C2_Witness ==
    \E i \in Indices :
        /\ outcome[i] = "rejected"
        /\ poi_entry[i].result = PriorResult(variant)
        /\ poi_entry[i].deformation["u"]["t"] = F(1)
        /\ poi_queue[i].result.zncc # poi_entry[i].result.zncc

\* C3 as claimed: in ICGN2D1 and ICGN2D2 a POI with NaN in any component of
\* its initial guess (u, ux, uy, v, vx, vy, and the second-order terms for
\* ICGN2D2) is rejected with zncc = -1.
C3_NaNGuessRejected2D ==
    \A i \in Indices :
        (/\ ~Is3D(variant)
         /\ Decided(i)
         /\ \E r \in Rows(variant), c \in CurrentCols(variant) :
                IsNaN(poi_entry[i].deformation[r][c]))
        => outcome[i] = "rejected" /\ poi_queue[i].result.zncc = F(-1)

\* C4 as claimed: in ICGN3D1 a POI whose initial u, v or w is NaN is
\* rejected with zncc = -1 and not iterated on.
C4_NaNGuessRejected3D ==
    \A i \in Indices :
        (/\ Is3D(variant)
         /\ Decided(i)
         /\ \E r \in Rows(variant) : IsNaN(poi_entry[i].deformation[r]["t"]))
        => outcome[i] = "rejected" /\ poi_queue[i].result.zncc = F(-1)

\* the exit test as the specification words it
StopAsClaimed(l) ==
    FGe(F(l.iteration), stop_condition) \/ FLt(l.dp_norm_max, conv_criterion)
\* a thread that has run the body l.iteration >= 1 times and is about to run
\* it again / has left the loop
Continued(l) == l.pc = "loop" /\ l.iteration >= 1
Stopped(l) == l.pc = "store"

\* the POI thread t works on came with a NaN-free initial guess
CleanGuess(t) == ~HasNaN(poi_entry[th[t].i].deformation)

\* C5 as claimed: the loop body runs at least once and, after each pass, the
\* loop stops exactly when iter >= stop_condition or dp_norm < conv_criterion
\* and continues otherwise, whatever dp_norm is (NaN included).  (Stated for
\* non-NaN settings and NaN-free initial guesses, where it already fails.)
C5_StopsExactlyAsSpecified ==
    (~IsNaN(stop_condition) /\ ~IsNaN(conv_criterion)) =>
        \A t \in Threads :
            /\ Stopped(th[t]) /\ CleanGuess(t) =>
                   th[t].iteration >= 1 /\ StopAsClaimed(th[t])
            /\ Continued(th[t]) /\ CleanGuess(t) => ~StopAsClaimed(th[t])

\* C5 as amended: for non-NaN stop_condition and conv_criterion the body runs
\* at least once and, after each pass, the loop stops exactly when
\* iter >= stop_condition or dp_norm < conv_criterion or dp_norm is NaN, and
\* continues otherwise.
C5_StopsAlsoOnNaN ==
    (~IsNaN(stop_condition) /\ ~IsNaN(conv_criterion)) =>
        \A t \in Threads :
            /\ Stopped(th[t]) =>
                   /\ th[t].iteration >= 1
                   /\ StopAsClaimed(th[t]) \/ IsNaN(th[t].dp_norm_max)
            /\ Continued(th[t]) =>
                   ~(StopAsClaimed(th[t]) \/ IsNaN(th[t].dp_norm_max))

\* the loop was left below the cap because dp_norm is NaN (a constant
\* target subset)
C5_Witness ==
    \E t \in Threads :
        /\ Stopped(th[t])
        /\ CleanGuess(t)
        /\ IsNaN(th[t].dp_norm_max)
        /\ FLt(F(th[t].iteration), stop_condition)
        /\ ~IsNaN(conv_criterion)

NotConverged(i) ==
    outcome[i] = "refined" /\ FGe(poi_queue[i].result.convergence, conv_criterion)

\* C6 as claimed: whenever compute returns from an accepted POI with
\* result.convergence >= conv_criterion, result.iteration = stop_condition,
\* for every stop_condition (0, negative and non-integer included).
C6_CapEqualsStopCondition ==
    \A i \in Indices :
        NotConverged(i) => FEq(poi_queue[i].result.iteration, stop_condition)

\* C6 as amended: whenever compute returns from an accepted POI with
\* result.convergence >= conv_criterion, result.iteration is
\* max(1, ceil(stop_condition)), and 1 when stop_condition is NaN.
C6_CapIsCeilAtLeastOne ==
    \A i \in Indices :
        NotConverged(i) =>
            FEq(poi_queue[i].result.iteration,
                IF IsNaN(stop_condition) THEN F(1)
                ELSE F(Max(1, Ceil(stop_condition))))

\* a run that hit the cap under a stop_condition that is no positive integer
C6_Witness ==
    \E i \in Indices :
        /\ NotConverged(i)
        /\ ~IsNaN(stop_condition)
        /\ ~FEq(poi_queue[i].result.iteration, stop_condition)
        /\ FGt(poi_queue[i].result.iteration, F(1))

\* C7 as claimed: compute(poi_queue) always runs to completion: no POI loop
\* runs more than max(1, ceil(stop_condition)) passes, and the call never
\* ends with a POI left unprocessed.  (Stated for a non-empty pool, where it
\* already fails.)
C7_BatchRunsToCompletion ==
    PoolSize >= 1 =>
        /\ ~IsNaN(stop_condition) =>
               \A t \in Threads : th[t].iteration <= Max(1, Ceil(stop_condition))
        /\ phase \in {"returned", "terminated"} => \A i \in Indices : Decided(i)

\* C8 as claimed: two computes that run at the same time never hold the same
\* scratch instance, each holding instance_pool[thread index]; also when
\* compute(&poi) is called concurrently from several caller threads.
C8_NoSharedInstance ==
    \A t1 \in Threads :
        Running(th[t1]) =>
            /\ th[t1].cur_instance = th[t1].tid
            /\ \A t2 \in Threads \ {t1} :
                   Running(th[t2]) => th[t2].cur_instance # th[t1].cur_instance

\* C8 as amended: inside one compute(poi_queue) call two computes that run
\* at the same time never hold the same scratch instance: team member k
\* holds instance_pool[k].  (Caller threads outside a parallel region all
\* have thread index 0 and share instance_pool[0].)
C8_NoSharedInstanceInBatch ==
    phase = "batch" =>
        \A t1 \in Threads :
            Running(th[t1]) =>
                /\ th[t1].cur_instance = t1
                /\ \A t2 \in Threads \ {t1} :
                       Running(th[t2]) => th[t2].cur_instance # th[t1].cur_instance

\* two team members of one batch are inside compute(poi) at the same time
C8_Witness ==
    /\ phase = "batch"
    /\ \E t1 \in Threads, t2 \in Threads :
           t1 # t2 /\ Running(th[t1]) /\ Running(th[t2])

\* C9 as claimed: the parallel loop of compute(poi_queue) runs with exactly
\* thread_number workers: every worker index that reaches getInstance is in
\* 0 .. thread_number-1 and the batch never hits the pool-overflow error.
\* (Stated for a non-empty pool, where it already fails.)
C9_TeamFitsPool ==
    (PoolSize >= 1 /\ phase \in {"batch", "returned", "terminated"}) =>
        /\ phase # "terminated"
        /\ \A t \in Threads : th[t].pc # "idle" => th[t].tid < PoolSize

\* who throws and who runs, by thread index
C10_Indices ==
    \A t \in Threads :
        /\ th[t].pc = "thrown" => th[t].tid >= PoolSize
        /\ Running(th[t]) =>
               th[t].tid \in 0..(PoolSize - 1) /\ th[t].cur_instance = th[t].tid
\* a throw happens on entry and writes neither the POIs nor the pool
C10_ThrowStep ==
    \A t \in Threads :
        (th[t].pc # "thrown" /\ th'[t].pc = "thrown") =>
            /\ th[t].pc = "idle"
            /\ poi_queue' = poi_queue
            /\ instance_pool' = instance_pool
\* C10: a compute(poi) call whose thread index is not below the pool size
\* throws at once, with no POI and no scratch instance written; a call whose
\* thread index tid is in 0 .. size-1 gets instance_pool[tid] and does not
\* throw.
C10_GetInstance == [](C10_Indices) /\ [][C10_ThrowStep]_vars

\* a team member threw while another one was inside compute(poi)
C10_Witness ==
    \E t1 \in Threads, t2 \in Threads :
        /\ th[t1].pc = "thrown"
        /\ th[t2].pc \in {"validate", "loop", "store"}
        /\ poi_queue[th[t1].i] = poi_entry[th[t1].i]

----------------------------------------------------------------------------
(* The batch driver and the POI list *)

\* the list keeps its length, its order and the centre of every element
SameCenters ==
    /\ DOMAIN poi_queue = DOMAIN poi_entry
    /\ \A i \in Indices :
           /\ poi_queue[i].x = poi_entry[i].x
           /\ poi_queue[i].y = poi_entry[i].y
           /\ poi_queue[i].z = poi_entry[i].z

\* in a batch no index is held by two workers, and a batch that returned has
\* computed every index
C11_Indices ==
    /\ SameCenters
    /\ phase = "batch" =>
           \A t1 \in Threads, t2 \in Threads :
               (t1 # t2 /\ Running(th[t1]) /\ Running(th[t2])) => th[t1].i # th[t2].i
    /\ phase = "returned" => \A i \in Indices : Decided(i)

\* in a batch a worker starts only an index nobody computed or computes, and
\* a step that writes a POI writes the one POI its worker holds
C11_Step ==
    phase = "batch" =>
        /\ \A t \in Threads :
               (th[t].pc = "idle" /\ th'[t].pc = "validate") =>
                   /\ outcome[th'[t].i] = "none"
                   /\ \A t2 \in Threads : th[t2].i # th'[t].i
        /\ \A j \in Indices :
               poi_queue'[j] # poi_queue[j] =>
                   /\ \E t \in Threads :
                          Running(th[t]) /\ th[t].i = j /\ th'[t].pc = "idle"
                   /\ \A j2 \in Indices \ {j} : poi_queue'[j2] = poi_queue[j2]

\* C11: in compute(poi_queue) every index of the POI list is computed exactly
\* once, by one worker, which writes only poi_queue[i]; no two workers write
\* the same POI; length, order and centres of the list are those of the input.
C11_EachIndexOnce == [](C11_Indices) /\ [][C11_Step]_vars

\* two workers of one team are inside compute(poi) at the same time
C11_Witness ==
    /\ phase = "batch"
    /\ \E t1 \in Threads, t2 \in Threads :
           /\ t1 # t2
           /\ th[t1].pc = "loop" /\ th[t2].pc = "store"

----------------------------------------------------------------------------
(* compute(poi) run alone, start to end, as a function of the POI *)

RECURSIVE SerialLoop(_, _, _, _, _)
SerialLoop(vr, img, conv, stop, l) ==
    LET out == Response(img, vr, l.p_current)
        iteration == l.iteration + 1
        dp_norm_max == DpNorm(vr, out.dp)
        l2 == [l EXCEPT !.iteration = iteration,
                        !.p_current = Compose(vr, l.p_current, out.dp),
                        !.znssd = out.znssd,
                        !.dp_norm_max = dp_norm_max]
    IN  IF Continue(iteration, stop, dp_norm_max, conv)
        THEN SerialLoop(vr, img, conv, stop, l2)
        ELSE l2

SerialCompute(vr, img, conv, stop, poi) ==
    IF RejectCond(vr, poi)
    THEN RejectedPoi(poi)
    ELSE LET p0 == PInitial(vr, poi)
             l0 == [IdleThread EXCEPT !.iteration = 0, !.p_initial = p0,
                                      !.p_current = SetDeformation(vr, p0)]
         IN  StoredPoi(vr, poi, SerialLoop(vr, img, conv, stop, l0))

\* what one thread calling compute(&poi) on the POIs one after another leaves
SerialQueue ==
    [i \in DOMAIN poi_entry |->
        SerialCompute(variant, image, conv_criterion, stop_condition, poi_entry[i])]

\* C12: whatever the interleaving of the workers, a compute(poi_queue) that
\* returned left every POI (deformation and result record) as the serial
\* calls of compute(&poi) by one thread on the same estimator leave it.
C12_BatchEqualsSerial ==
    /\ phase = "returned" => poi_queue = SerialQueue
    /\ (phase = "direct" /\ callers = 1 /\ \A i \in Indices : Decided(i)) =>
           poi_queue = SerialQueue

\* a batch of several POIs, refined by a team of several workers, returned
C12_Witness ==
    /\ phase = "returned"
    /\ omp_threads > 1 /\ PoolSize > 1
    /\ \A i \in Indices : outcome[i] = "refined"
    /\ Cardinality(Indices) > 1

----------------------------------------------------------------------------
(* Determinism of compute(poi) *)

\* thread t runs as a member of a batch team or as the only caller
Supported == phase \in {"batch", "returned"} \/ callers = 1

\* in the loop, the buffers a pass reads hold the data of the current POI
C13_Overwritten ==
    Supported => \A t \in Threads : th[t].pc = "loop" => Coherent(t)

\* whoever finishes a compute(poi), on whatever instance and after whatever
\* other POIs, leaves the POI as the function of its state on entry
C13_Finish ==
    Supported =>
        \A t \in Threads :
            (Running(th[t]) /\ th'[t].pc = "idle") =>
                poi_queue'[th[t].i] =
                    SerialCompute(variant, image, conv_criterion, stop_condition,
                                  poi_entry[th[t].i])

\* C13: the result of compute for a POI depends only on the images, the
\* estimator's parameters and the POI's state on entry: not on the worker or
\* scratch instance that ran it, not on the scheduling order, not on what an
\* earlier POI left in the scratch buffers (each buffer read was first
\* rewritten for the current POI).
C13_ResultIsFunctionOfPoi == [](C13_Overwritten) /\ [][C13_Finish]_vars

\* worker 1 alone refined the second POI and then the first one, both on
\* instance 1 (instance 0 was never filled)
C13_Witness ==
    /\ PoolSize = 2
    /\ instance_pool[0] = EmptyInstance
    /\ instance_pool[1].ref_subset = 1
    /\ outcome[1] = "refined" /\ outcome[2] = "refined"

----------------------------------------------------------------------------
(* FFT-CC: properties *)

FftDone == fft_th.pc = "done"
\* the local displacement the finished compute added to the guess, in pixels
AddedTo(row) ==
    (fft_poi.deformation[row]["t"].h - fft_cfg.entry.deformation[row]["t"].h) \div 2

\* C14 as claimed: the index of the maximum is decoded as du = k mod (2rx),
\* dv = k div (2rx) (row-major over (w, v, u) in 3D) and wrapped so that, for
\* every index, -rx <= du < rx and -ry <= dv < ry (and -rz <= dw < rz in 3D).
C14_DecodedInRange ==
    FftDone =>
        LET d == SubsetDims(fft_cfg)
            k == fft_th.max_zncc_index
        IN  /\ AddedTo("u") % d[1] = k % d[1]
            /\ AddedTo("v") % d[2] = (k \div d[1]) % d[2]
            /\ -fft_cfg.rx <= AddedTo("u") /\ AddedTo("u") < fft_cfg.rx
            /\ -fft_cfg.ry <= AddedTo("v") /\ AddedTo("v") < fft_cfg.ry
            /\ fft_cfg.kind = "FFTCC3D" =>
                   /\ AddedTo("w") % d[3] = k \div (d[1] * d[2])
                   /\ -fft_cfg.rz <= AddedTo("w") /\ AddedTo("w") < fft_cfg.rz


\* C15: FFT-CC compute(poi) writes deformation.u = u0 + du and deformation.v
\* = v0 + dv (and w in 3D) with (u0, v0) the displacement on entry, records
\* that guess in result.u0/v0[/w0] and sets result.zncc; the centre and every
\* other deformation component stay as they were.
C15_FftWritesDisplacementOnly ==
    LET e == fft_cfg.entry
        d == LocalDisplacement(fft_cfg, fft_th.max_zncc_index)
        rows == Rows(PoiTypeOf(fft_cfg.kind))
        at(r) == IF r = "u" THEN 1 ELSE IF r = "v" THEN 2 ELSE 3
    IN  /\ ~FftDone => fft_poi = e
        /\ FftDone =>
               /\ fft_poi.x = e.x /\ fft_poi.y = e.y /\ fft_poi.z = e.z
               /\ \A r \in rows :
                      /\ fft_poi.deformation[r]["t"] =
                             FAdd(e.deformation[r]["t"], F(d[at(r)]))
                      /\ \A col \in DOMAIN e.deformation[r] \ {"t"} :
                             fft_poi.deformation[r][col] = e.deformation[r][col]
               /\ fft_poi.result.u0 = e.deformation["u"]["t"]
               /\ fft_poi.result.v0 = e.deformation["v"]["t"]
               /\ fft_cfg.kind = "FFTCC3D" =>
                      fft_poi.result.w0 = e.deformation["w"]["t"]
               /\ fft_poi.result.zncc =
                      NormalisedZncc(fft_th.max_zncc, fft_th.ref_norm, fft_th.tar_norm)

\* a POI that came with the guess u0 = 1/2 and gradient components left by
\* earlier work got a non-zero local displacement
C15_Witness ==
    /\ FftDone
    /\ fft_cfg.entry.deformation["u"]["t"] = Half(1)
    /\ fft_cfg.entry.deformation["u"]["x"] = Half(1)
    /\ AddedTo("u") # 0

\* C16 as claimed: when the target is the reference moved by an integer
\* (tx, ty) with |tx| < rx and |ty| < ry, FFT-CC with a zero guess returns
\* exactly (u, v) = (tx, ty), the target-minus-reference displacement.
\* (Stated for a textured reference, where it already fails.)
C16_IntegerShiftRecovered ==
    LET t == fft_cfg.shift IN
    (/\ FftDone
     /\ fft_cfg.kind = "FFTCC2D"
     /\ fft_cfg.ref # {}
     /\ fft_cfg.entry.deformation["u"]["t"] = F(0)
     /\ fft_cfg.entry.deformation["v"]["t"] = F(0)
     /\ -fft_cfg.rx < t[1] /\ t[1] < fft_cfg.rx
     /\ -fft_cfg.ry < t[2] /\ t[2] < fft_cfg.ry) =>
        /\ fft_poi.deformation["u"]["t"] = F(t[1])
        /\ fft_poi.deformation["v"]["t"] = F(t[2])

----------------------------------------------------------------------------
(* ICGN: identity, write-back, Hessian *)

\* POI i came with an all-zero deformation and was refined under a positive
\* convergence criterion
ZeroGuessRefined(i) ==
    /\ outcome[i] = "refined"
    /\ poi_entry[i].deformation = ZeroGuess(variant)
    /\ FGt(conv_criterion, F(0))
\* ... and ended after at most 2 passes with zero deformation, ZNCC 1 and
\* convergence 0
IdentityResult(i) ==
    /\ FGe(poi_queue[i].result.iteration, F(1))
    /\ FGe(F(2), poi_queue[i].result.iteration)
    /\ poi_queue[i].deformation = ZeroGuess(variant)
    /\ poi_queue[i].result.zncc = F(1)
    /\ poi_queue[i].result.convergence = F(0)

\* C17 as claimed: when reference and target are the same image, an accepted
\* POI with zero initial guess and conv_criterion > 0 stops after at most 2
\* iterations with every deformation component zero, ZNCC 1 and convergence 0.
C17_IdentityConverges ==
    \A i \in Indices :
        (image \in {"same", "blank"} /\ ZeroGuessRefined(i)) => IdentityResult(i)

\* C17, amended: the same for a subset with texture (non-zero norm,
\* invertible Hessian)
C17_IdentityConvergesOnTexture ==
    \A i \in Indices : (image = "same" /\ ZeroGuessRefined(i)) => IdentityResult(i)

\* a textured identical pair, refined in one pass under a cap of several
C17_Witness ==
    \E i \in Indices :
        /\ image = "same" /\ ZeroGuessRefined(i)
        /\ poi_queue[i].result.iteration = F(1)
        /\ FGt(stop_condition, F(1))


\* the initial guess recorded for a refined POI is the displacement it came
\* with; when that displacement was written by FFT-CC, it is FFT-CC's output
C18_GuessRecorded ==
    \A i \in Indices :
        outcome[i] = "refined" =>
            /\ poi_queue[i].result.u0 = poi_entry[i].deformation["u"]["t"]
            /\ poi_queue[i].result.v0 = poi_entry[i].deformation["v"]["t"]
            /\ Is3D(variant) =>
                   poi_queue[i].result.w0 = poi_entry[i].deformation["w"]["t"]
            /\ \A written \in ChainPois :
                   poi_entry[i] = written =>
                       /\ poi_queue[i].result.u0 = written.deformation["u"]["t"]
                       /\ poi_queue[i].result.v0 = written.deformation["v"]["t"]
\* the pass counter starts at 0 and grows by one per pass; the write-back
\* stores it, the last dp_norm_max and every component of p_current
C18_Step ==
    \A t \in Threads :
        LET l == th[t]
            i == l.i
        IN  /\ (l.pc = "validate" /\ th'[t].pc = "loop") => th'[t].iteration = 0
            /\ (l.pc = "loop" /\ th'[t] # l) => th'[t].iteration = l.iteration + 1
            /\ (l.pc = "store" /\ th'[t].pc = "idle") =>
                   /\ poi_queue'[i].result.iteration = F(l.iteration)
                   /\ poi_queue'[i].result.convergence = l.dp_norm_max
                   /\ \A r \in Rows(variant), c \in PoiCols(variant) :
                          poi_queue'[i].deformation[r][c] =
                              IF c \in CurrentCols(variant) THEN l.p_current[r][c]
                              ELSE poi_queue[i].deformation[r][c]

\* C18: after ICGN on an accepted POI result.u0/v0 (w0) are the deformation
\* u/v (w) the POI had on entry, result.iteration is the number of passes
\* executed, result.convergence the last dp_norm, and every deformation
\* component of the shape function is overwritten from p_current; chained
\* after FFT-CC, u0/v0 are exactly what FFT-CC wrote.
C18_WriteBack == [](C18_GuessRecorded) /\ [][C18_Step]_vars

\* FFT-CC matched the subsets (ZNCC 1) and changed the displacement; ICGN took
\* FFT-CC's value as its guess, ran two passes and moved away from it
C18_Witness ==
    \E i \in Indices :
        /\ outcome[i] = "refined"
        /\ poi_entry[i] \in ChainPois
        /\ poi_entry[i].result.zncc = F(1)
        /\ poi_entry[i].deformation["u"]["t"] # poi_entry[i].result.u0
        /\ poi_queue[i].result.u0 = poi_entry[i].deformation["u"]["t"]
        /\ poi_queue[i].deformation["u"]["t"] # poi_queue[i].result.u0
        /\ poi_queue[i].result.iteration = F(2)


----------------------------------------------------------------------------
(* FFT-CC: the planner *)

InPlanner(t) == planner.th[t].inside # "none"

\* C19: no two FFT planner calls execute at the same time, plan creation in
\* FFTW::allocate and plan destruction in FFTW::release alike, also when
\* several estimators are constructed or destroyed concurrently.
C19_PlannerCallsExclusive ==
    planner.kind # "none" =>
        \A t1 \in Threads, t2 \in Threads : (InPlanner(t1) /\ InPlanner(t2)) => t1 = t2

\* plan creations exclude one another
PlanCreationsExclusive ==
    planner.kind # "none" =>
        \A t1 \in Threads, t2 \in Threads :
            (planner.th[t1].inside = "plan" /\ planner.th[t2].inside = "plan") => t1 = t2


----------------------------------------------------------------------------
(* ICGN: what the loop leaves alone *)

\* while a supported call is in its loop or about to store, the reference
\* subset and the Hessian (with it the steepest-descent image and the inverse)
\* of its instance are those built from the reference data of its POI
C20_BuiltBeforeLoop ==
    \A t \in Threads :
        (Supported /\ th[t].pc \in {"loop", "store"}) =>
            /\ instance_pool[th[t].cur_instance].ref_subset = th[t].i
            /\ instance_pool[th[t].cur_instance].hessian = th[t].i
\* they change only in the set-up of a call, which precedes pass 1; a pass
\* changes the target subset (and error image) of its instance and the
\* thread's locals, nothing else
C20_Step ==
    /\ \A k \in DOMAIN instance_pool :
           (\/ instance_pool'[k].hessian # instance_pool[k].hessian
            \/ instance_pool'[k].ref_subset # instance_pool[k].ref_subset) =>
               \E t \in Threads :
                   /\ th[t].pc = "validate" /\ th'[t].pc = "loop"
                   /\ th[t].cur_instance = k
                   /\ th'[t].iteration = 0
                   /\ instance_pool'[k].hessian = th[t].i
                   /\ instance_pool'[k].ref_subset = th[t].i
    /\ \A t \in Threads :
           (th[t].pc = "loop" /\ th'[t] # th[t]) =>
               /\ instance_pool' = [instance_pool EXCEPT
                      ![th[t].cur_instance].tar_subset = th[t].i,
                      ![th[t].cur_instance].tar_iteration = th'[t].iteration]
               /\ th' = [th EXCEPT ![t] = [th[t] EXCEPT
                      !.iteration = th'[t].iteration, !.p_current = th'[t].p_current,
                      !.znssd = th'[t].znssd, !.dp_norm_max = th'[t].dp_norm_max,
                      !.pc = th'[t].pc]]
               /\ poi_queue' = poi_queue

\* C20: the steepest-descent image, the Hessian and its inverse are built
\* exactly once per compute call, before the first iteration and from
\* reference data only, and the loop does not modify them; in the loop only
\* the target subset, the error image and p_current / p_increment change.
C20_HessianBuiltOnce == [](C20_BuiltBeforeLoop) /\ [][C20_Step]_vars

\* a call has made two passes and goes on; its instance still holds the
\* Hessian of its set-up
C20_Witness ==
    \E t \in Threads :
        /\ Supported
        /\ th[t].pc = "loop" /\ th[t].iteration = 2
        /\ instance_pool[th[t].cur_instance].tar_iteration = 2
        /\ instance_pool[th[t].cur_instance].hessian = th[t].i


----------------------------------------------------------------------------
(* ICGN: the recorded ZNCC *)

ZnccOf(znssd) == FMul(Half(1), FSub(F(2), znssd))
\* the estimate written back to POI i, as a p_current
WrittenBack(i) ==
    [r \in Rows(variant) |->
        [c \in CurrentCols(variant) |-> poi_queue[i].deformation[r][c]]]

C21_ZnccAtRest ==
    \A i \in Indices :
        (Supported /\ outcome[i] = "refined"
            /\ poi_queue[i].result.convergence = F(0)) =>
            poi_queue[i].result.zncc =
                ZnccOf(Response(image, variant, WrittenBack(i)).znssd)
\* each pass evaluates znssd at the estimate it starts from, and the
\* write-back converts the znssd of the last pass
C21_Step ==
    \A t \in Threads :
        /\ (th[t].pc = "loop" /\ th'[t] # th[t] /\ Coherent(t)) =>
               th'[t].znssd = Response(image, variant, th[t].p_current).znssd
        /\ (th[t].pc = "store" /\ th'[t].pc = "idle") =>
               poi_queue'[th[t].i].result.zncc = ZnccOf(th[t].znssd)

----------------------------------------------------------------------------
(* ICGN-2D-2: the starting point *)

\* C22: ICGN-2D-2 initialises p_current from the POI's full deformation: all
\* 12 components of the initial guess, the second-order terms included, are
\* the starting point of the iteration.
C22_StartsFromFullGuess ==
    \A t \in Threads :
        (/\ variant = "ICGN2D2"
         /\ th[t].pc = "loop" /\ th[t].iteration = 0
         /\ ~HasNaN(poi_queue[th[t].i].deformation)) =>
            \A r \in Rows(variant), c \in PoiCols(variant) :
                th[t].p_current[r][c] = poi_queue[th[t].i].deformation[r][c]


----------------------------------------------------------------------------
(* ICGN: where the set-up reads the reference gradient *)

\* the global coordinates at which the Hessian loop reads ref_gradient for
\* a POI: center + every local coordinate of the subset
GradientSamples(vr, poi) ==
    {<<poi.x + a, poi.y + b, poi.z + c>> :
        a \in (-RadiusX)..RadiusX, b \in (-RadiusY)..RadiusY,
        c \in IF Is3D(vr) THEN (-RadiusZ)..RadiusZ ELSE {0}}
\* within 2 pixels of the border: the five-point stencil does not fit
NearBorder(vr, pt) ==
    \/ pt[1] < 2 \/ pt[1] > Width - 3
    \/ pt[2] < 2 \/ pt[2] > Height - 3
    \/ Is3D(vr) /\ (pt[3] < 2 \/ pt[3] > Depth - 3)

\* C23: for every POI that ICGN accepts, none of the reference-gradient
\* samples it reads lies within 2 pixels of the image border.
C23_GradientSamplesAwayFromBorder ==
    \A t \in Threads :
        th[t].pc \in {"loop", "store"} =>
            \A pt \in GradientSamples(variant, poi_queue[th[t].i]) :
                ~NearBorder(variant, pt)


----------------------------------------------------------------------------
(* ICGN: where a pass evaluates the target interpolator *)

LocalCoors(vr) ==
    {<<a, b, c>> : a \in (-RadiusX)..RadiusX, b \in (-RadiusY)..RadiusY,
                   c \in IF Is3D(vr) THEN (-RadiusZ)..RadiusZ ELSE {0}}
\* component r of p.warp(local)
Warp(vr, p, r, local) ==
    LET x == F(local[1])
        y == F(local[2])
        z == F(local[3])
        affine == FAdd(FAdd(FMul(Lin(p, r, "x"), x), FMul(Lin(p, r, "y"), y)),
                       p[r]["t"])
        quad == FAdd(FAdd(FMul(FMul(Half(1), Second(p, r, "xx")), FMul(x, x)),
                          FMul(Second(p, r, "xy"), FMul(x, y))),
                     FMul(FMul(Half(1), Second(p, r, "yy")), FMul(y, y)))
    IN  IF Is3D(vr) THEN FAdd(affine, FMul(Lin(p, r, "z"), z))
        ELSE FAdd(affine, quad)
\* global_coor = tar_subset->center + warped_coor, for every local coordinate
TargetSamples(vr, poi, p) ==
    {[x |-> FAdd(F(poi.x), Warp(vr, p, "u", local)),
      y |-> FAdd(F(poi.y), Warp(vr, p, "v", local)),
      z |-> IF Is3D(vr) THEN FAdd(F(poi.z), Warp(vr, p, "w", local)) ELSE F(0)] :
        local \in LocalCoors(vr)}
InsideTarget(vr, g) ==
    /\ FGe(g.x, F(0)) /\ FGe(F(Width - 1), g.x)
    /\ FGe(g.y, F(0)) /\ FGe(F(Height - 1), g.y)
    /\ Is3D(vr) => (FGe(g.z, F(0)) /\ FGe(F(Depth - 1), g.z))

\* C24: ICGN never evaluates the target interpolator at a coordinate outside
\* the target image: for every accepted POI, every initial guess and every
\* iteration, each sampled coordinate center + warp(local) is inside the
\* target's bounds.
C24_TargetSamplesInside ==
    \A t \in Threads :
        (th[t].pc = "loop" /\ ~HasNaN(th[t].p_current)) =>
            \A g \in TargetSamples(variant, poi_queue[th[t].i], th[t].p_current) :
                InsideTarget(variant, g)


----------------------------------------------------------------------------
(* ICGN: what the convergence norm counts *)

Tested(vr) == conv_test.pc = "tested" /\ conv_test.variant = vr
NoTranslation(dp) == \A r \in DOMAIN dp : dp[r]["t"] = F(0)
SomeGradient(dp) == \E r \in DOMAIN dp : \E c \in DOMAIN dp[r] \ {"t"} : dp[r][c] # F(0)
Translation(dp) ==
    [r \in DOMAIN dp |-> [c \in DOMAIN dp[r] |-> IF c = "t" THEN dp[r][c] ELSE F(0)]]

\* C25 as claimed: in ICGN-3D-1 an increment with du = dv = dw = 0 stops the
\* loop whatever its nine gradient components are.
C25_ZeroTranslationStops3D ==
    (Tested("ICGN3D1") /\ NoTranslation(conv_test.p_increment)) => ~conv_test.again

\* C25, amended: in ICGN-3D-1 dp_norm depends only on du, dv, dw; with
\* du = dv = dw = 0 it is 0 whatever the nine gradient components are, and
\* the loop stops when conv_criterion > 0 (or at the cap); in ICGN-2D-1 the
\* norm also counts the gradient components, weighted by the radii.
C25_NormOfTranslationOnly ==
    LET l == conv_test IN
    /\ Tested("ICGN3D1") =>
           /\ l.dp_norm_max = DpNorm("ICGN3D1", Translation(l.p_increment))
           /\ NoTranslation(l.p_increment) =>
                  /\ l.dp_norm_max = F(0)
                  /\ FGt(l.conv_criterion, F(0)) => ~l.again
                  /\ l.again => (l.conv_criterion = F(0) /\ l.iteration < MaxStop)
    /\ (Tested("ICGN2D1") /\ NoTranslation(l.p_increment)
            /\ SomeGradient(l.p_increment)) =>
           (IsNaN(l.dp_norm_max) \/ FGt(l.dp_norm_max, F(0)))

\* a 3D increment without translation and with a gradient component: the
\* test ends the loop below the cap
C25_Witness ==
    /\ Tested("ICGN3D1")
    /\ NoTranslation(conv_test.p_increment)
    /\ conv_test.p_increment["u"]["x"] = F(2)
    /\ FGt(conv_test.conv_criterion, F(0))
    /\ conv_test.iteration = 1
    /\ ~conv_test.again


----------------------------------------------------------------------------
(* FFT-CC: the speckle-size diagnostic *)

Searches == {speckle.right, speckle.left, speckle.down, speckle.up}

\* C26: every index used on the shifted correlation matrix stays inside
\* [0, 2ry) x [0, 2rx): the shift maps each buffer index to a distinct
\* in-range cell with zero lag at (ry-1, rx-1), and none of the four search
\* loops reads past the first or last row/column, for every rx, ry >= 1.
C26_MatrixIndicesInRange ==
    LET c == speckle.cfg IN
    /\ speckle.pc \in {"search_x", "search_y", "done"} =>
           /\ \A i \in Cells(c) : speckle.written[i] \in MatrixCells(c)
           /\ \A i \in Cells(c), j \in Cells(c) :
                  speckle.written[i] = speckle.written[j] => i = j
           /\ speckle.written[0] = <<c.ry - 1, c.rx - 1>>
    /\ speckle.pc \in {"search_y", "done"} =>
           speckle.right.reads \cup speckle.left.reads \subseteq MatrixCells(c)
    /\ speckle.pc = "done" =>
           speckle.down.reads \cup speckle.up.reads \subseteq MatrixCells(c)

\* on a line along x the two loops along x ran to their last iteration
\* without a crossing and read the first column and the last but one; the
\* loops along y found crossings
C26_Witness ==
    /\ speckle.pc = "done"
    /\ speckle.cfg.rx = MaxFftRadius /\ speckle.cfg.ry = MaxFftRadius
    /\ ~speckle.right.found /\ ~speckle.left.found
    /\ <<speckle.cfg.ry - 1, 0>> \in speckle.left.reads
    /\ <<speckle.cfg.ry - 1, 2 * speckle.cfg.rx - 2>> \in speckle.right.reads
    /\ speckle.down.found /\ speckle.up.found
    /\ <<0, speckle.cfg.rx - 1>> \in speckle.up.reads


\* a search that found a crossing put it where the straight line through
\* (x1, z(x1)) and (x2, z(x2)) meets the ratio, between x1 and x2
LinearCrossing(s) ==
    LET unit == 2 * speckle.ref_norm * speckle.ref_norm
        lo == IF s.x1 < s.x2 THEN s.x1 ELSE s.x2
    IN  s.found =>
            /\ (s.x2 * unit - s.crossing) * 2 * (s.z1 - s.z2) =
                   (s.x2 - s.x1) * (speckle.ref_norm - 2 * s.z2) * unit
            /\ lo * unit <= s.crossing /\ s.crossing <= (lo + 1) * unit

\* C27: the threshold crossing between neighbouring samples x1 (above
\* half_peak_ratio) and x2 (at or below it) is the linear interpolation
\* x2 - (x2 - x1) * (ratio - z(x2)) / (z(x1) - z(x2)), so it lies between x1
\* and x2, and the returned size is right crossing minus left crossing on
\* each axis.
C27_CrossingIsLinearInterpolation ==
    speckle.pc = "done" =>
        /\ \A s \in Searches : LinearCrossing(s)
        /\ speckle.speckle_size = <<speckle.right.crossing - speckle.left.crossing,
                                    speckle.down.crossing - speckle.up.crossing>>

----------------------------------------------------------------------------
(* ICGN2D1: the two forms of p_current *)

SameMap(d) ==
    /\ d.scalars = ReadBack2D1(d.warp_matrix)
    /\ \A local \in LocalCoors("ICGN2D1") :
           WarpOf(d.warp_matrix, local) = MapOf(d.scalars, local)

----------------------------------------------------------------------------
(* ICGN2D1: ownership of the gradient and the interpolator *)

Objects == 1..Len(prep.heap)
LiveObjects(kind) == {o \in Objects : prep.heap[o].kind = kind /\ prep.heap[o].frees = 0}

\* C29: through any sequence of setImages, prepare, prepareRef, prepareTar
\* and compute calls and the destructor, the estimator owns at most one live
\* gradient object and at most one live interpolator, the ones its pointers
\* name, each built from the image that was attached when it was last
\* prepared; no object is freed twice, none is left unfreed after the
\* destructor, and compute never uses a freed object.
C29_OwnsOneOfEach ==
    /\ \A o \in Objects : prep.heap[o].frees <= 1
    /\ prep.pc = "destroyed" => \A o \in Objects : prep.heap[o].frees = 1
    /\ prep.pc = "constructed" =>
        /\ LiveObjects("gradient") =
                IF prep.ref_gradient = NullPtr THEN {} ELSE {prep.ref_gradient}
        /\ LiveObjects("interpolator") =
                IF prep.tar_interp = NullPtr THEN {} ELSE {prep.tar_interp}
        /\ prep.ref_gradient # NullPtr =>
                prep.heap[prep.ref_gradient].from = prep.ref_prepared
        /\ prep.tar_interp # NullPtr =>
                prep.heap[prep.tar_interp].from = prep.tar_prepared
    /\ ~prep.used_freed

\* two image pairs, the gradient rebuilt for the second after a compute on
\* the first, and everything freed by the destructor
C29_Witness ==
    /\ prep.pc = "destroyed"
    /\ prep.used # {}
    /\ \E a, b \in Objects :
         /\ a < b
         /\ prep.heap[a].kind = "gradient" /\ prep.heap[b].kind = "gradient"
         /\ prep.heap[a].from # prep.heap[b].from
         /\ a \in prep.used
    /\ \E o \in Objects : prep.heap[o].kind = "interpolator"

====
